---- MODULE Spec2Model ----
(***************************************************************************)
(* aws-login: the Bubble Tea flow orchestrator (ui/ui.go), the list models *)
(* it drives (ui/lists), the AWS service and credential store it queries   *)
(* (core/aws.go, core credential reader) and the auth drivers.             *)
(*                                                                         *)
(* Strings whose characters the code inspects (MFA codes, role ARNs,       *)
(* account ids) are sequences of one-character strings; names the code     *)
(* only compares are TLA+ strings.                                         *)
(*                                                                         *)
(* The Bubble Tea runtime is an external library.  It is modelled by what  *)
(* the program relies on: Init() runs once, messages reach Update one at a *)
(* time in no guaranteed order, every command returned by Update runs in   *)
(* its own goroutine concurrently with the event loop, and the event loop  *)
(* stops at tea.QuitMsg.  Rendering-only messages (window size, spinner    *)
(* and processing ticks) touch no flow state and are left out.  After Run  *)
(* has returned main prints the exit message and returns; the model keeps  *)
(* the goroutines of unfinished commands runnable up to that point, which  *)
(* it leaves open.                                                          *)
(***************************************************************************)
EXTENDS Integers, Sequences, FiniteSets, Bags, TLC

VARIABLES
    phase,            \* "constructed" | "running" | "stopped" | "crashed"
    credentials,      \* CredentialReader.credentials
    roleArnToProfile, \* CredentialReader.roleArnToProfile
    attemptECRLogin,  \* AWSService.attemptECRLogin
    currentStep,      \* UIManager.currentStep
    profile,          \* UIManager.profile
    authDriverName,   \* UIManager.authDriverName
    selectedRole,     \* UIManager.selectedRole
    mfaCode,          \* UIManager.mfaCode
    profileModel,     \* UIManager.profileModel (a list model, nil before Init)
    driverModel,      \* UIManager.driverModel
    roleModel,        \* UIManager.roleModel
    mfaInput,         \* UIManager.mfaInput value
    sessionResult,    \* UIManager.sessionResult
    err,              \* UIManager.err
    success,          \* UIManager.success
    step,             \* UIManager.step (transient error text)
    exitMessage,      \* UIManager.exitMessage
    msgs,             \* bag of messages and simple commands not yet delivered
    tasks,            \* commands that call external processes, one goroutine each
    env,              \* process environment written by persistCredentials
    artifact,         \* content of /tmp/aws-session.json
    credentialReader, \* AWSService.credentialReader: "nil" or "reader"
    loadPc,           \* LoadCredentialsFile: "entry" | "scanning" | "returned"
    currentProfile,   \* LoadCredentialsFile's local currentProfile
    currentCredential, \* LoadCredentialsFile's local currentCredential
    headers,          \* section headers the scanner has read so far
    text,             \* the lines of the credentials file, when they are known
    lineNo,           \* lines of `text` the scanner has returned so far
    call              \* a library call made outside the flow

vars == <<phase, credentials, roleArnToProfile, attemptECRLogin, currentStep,
          profile, authDriverName, selectedRole, mfaCode, profileModel,
          driverModel, roleModel, mfaInput, sessionResult, err, success, step,
          exitMessage, msgs, tasks, env, artifact, credentialReader, loadPc,
          currentProfile, currentCredential, headers, text, lineNo, call>>

loaderVars ==
    <<loadPc, currentProfile, currentCredential, headers, text, lineNo>>
storeVars == <<credentials, roleArnToProfile, attemptECRLogin,
               credentialReader, loaderVars, call>>
flowVars == <<currentStep, profile, authDriverName, selectedRole, mfaCode>>
modelVars == <<profileModel, driverModel, roleModel, mfaInput>>
resultVars == <<sessionResult, err, success, step, exitMessage>>
publishVars == <<env, artifact>>

----------------------------------------------------------------------------
(* Bounds of the model *)

\* messages and simple commands that may be pending at once
MaxPending == 2
\* external-call goroutines started in one run of the program
MaxTasks == 2
\* section headers in a credentials text
MaxSections == 2
\* lines in a credentials text that is followed line by line
MaxLines == 3
\* pieces (a word or a whitespace character) in a driver name that is parsed
MaxPieces == 3
\* characters in a string handed to ValidateMFACode
MaxCodeLen == 7

(* Program constants *)

\* len(code) != 6 in ValidateMFACode
MFACodeLen == 6
\* ti.CharLimit = 6 in NewMFAInput
CharLimit == 6
\* strings.Split(accountID, ":")[4] in LoginToECR
AccountField == 4

----------------------------------------------------------------------------
(* Values *)

\* the empty string of a character-sequence string
EmptyStr == <<>>
\* a nil error
NoErr == <<>>
\* a message field the handler of that message never reads
NoData == "-"

StepProfileSelection == "ProfileSelection"
StepDriverSelection == "DriverSelection"
StepRoleSelection == "RoleSelection"
StepMFAInput == "MFAInput"
StepProcessing == "Processing"
StepDone == "Done"
StepQuit == "Quit"

FlowStep ==
    {StepProfileSelection, StepDriverSelection, StepRoleSelection,
     StepMFAInput, StepProcessing, StepDone, StepQuit}

\* the iota value of each FlowStep
StepOrd(s) ==
    CASE s = StepProfileSelection -> 0
      [] s = StepDriverSelection -> 1
      [] s = StepRoleSelection -> 2
      [] s = StepMFAInput -> 3
      [] s = StepProcessing -> 4
      [] s = StepDone -> 5
      [] s = StepQuit -> 6

AuthDriverManual == "manual"
AuthDriver1Password == "1password"
AuthDriverUnknown == "unknown"
AuthDriverName == {AuthDriverManual, AuthDriver1Password, AuthDriverUnknown}

Digits == {"0", "1", "2", "3", "4", "5", "6", "7", "8", "9"}

\* the keys the model presses: confirm, cancel, escape, list navigation, and
\* two rune keys; a tea.KeyMsg of type KeyRunes carries one rune when typed
\* and several when pasted
KeyEnter == "enter"
KeyCtrlC == "ctrl+c"
KeyEsc == "esc"
KeyUp == "up"
KeyDown == "down"
KeyLetter == "a"
KeyCode == "111111"
CharKeys == {KeyLetter, KeyCode}
Keys == {KeyEnter, KeyCtrlC, KeyEsc, KeyDown} \cup CharKeys

\* KeyMsg.Runes of a rune key
Runes(key) ==
    IF key = KeyLetter THEN <<"a">> ELSE <<"1", "1", "1", "1", "1", "1">>

----------------------------------------------------------------------------
(* String helpers, computed as the Go standard library computes them *)

\* strings.Split(s, sep) for a one-character separator: the fields of s
RECURSIVE Split(_, _)
Split(s, sep) ==
    IF \A i \in 1..Len(s) : s[i] # sep
    THEN <<s>>
    ELSE LET i == CHOOSE k \in 1..Len(s) :
                      s[k] = sep /\ \A j \in 1..(k - 1) : s[j] # sep
         IN  <<SubSeq(s, 1, i - 1)>> \o Split(SubSeq(s, i + 1, Len(s)), sep)

\* the characters unicode.IsSpace accepts that the model's texts contain
SpaceChars == {" ", "\t"}

\* strings.Trim(s, cutset): s without its leading and trailing cutset characters
Trim(s, cutset) ==
    LET keep == {i \in 1..Len(s) : s[i] \notin cutset}
    IN  IF keep = {}
        THEN <<>>
        ELSE SubSeq(s, CHOOSE i \in keep : \A j \in keep : i <= j,
                       CHOOSE i \in keep : \A j \in keep : i >= j)

TrimSpace(s) == Trim(s, SpaceChars)

\* strings.HasPrefix, HasSuffix and Contains for a one-character argument
HasPrefix(s, c) == Len(s) >= 1 /\ s[1] = c
HasSuffix(s, c) == Len(s) >= 1 /\ s[Len(s)] = c
Contains(s, c) == \E i \in 1..Len(s) : s[i] = c

\* strings.SplitN(s, sep, 2): s cut at the first sep, or s alone
SplitN2(s, sep) ==
    IF ~Contains(s, sep)
    THEN <<s>>
    ELSE LET i == CHOOSE k \in 1..Len(s) :
                      s[k] = sep /\ \A j \in 1..(k - 1) : s[j] # sep
         IN  <<SubSeq(s, 1, i - 1), SubSeq(s, i + 1, Len(s))>>

\* A line of the credentials file is a sequence whose elements are the
\* characters the parser inspects (space, tab, '#', '[', ']', '=', ':') and
\* words, each standing for a run of other characters.  Str is the Go string
\* of a trimmed piece that is empty or one word.
Str(piece) ==
    IF Len(piece) = 0 THEN "" ELSE IF Len(piece) = 1 THEN piece[1] ELSE piece

----------------------------------------------------------------------------
(* Credential store contents *)

StaticCredential(name, key, secret, account, mfa, role, vault) ==
    [ProfileName |-> name, AccessKey |-> key, AccessSecret |-> secret,
     AccountID |-> account, MfaSerial |-> mfa, AssumableRoleID |-> role,
     VaultKey |-> vault]

\* arn:aws:iam::ACCOUNT:role/NAME shortened to one character per field
RoleA == <<"a", ":", "w", ":", "i", ":", ":", "1", ":", "r">>

\* a second role ARN
RoleB == <<"a", ":", "w", ":", "i", ":", ":", "2", ":", "r">>

\* types.StaticCredential{}
ZeroCredential == StaticCredential("", "", "", EmptyStr, "", EmptyStr, "")

\* no profile carries an MFA serial: no valid profile
StoreNoValid ==
    [p \in {"no-mfa"} |->
        StaticCredential("no-mfa", "AK", "SK", EmptyStr, "", EmptyStr, "")]

\* one valid profile, no account id, no assumable role anywhere
StoreSingle ==
    [p \in {"default"} |->
        StaticCredential("default", "AK", "SK", EmptyStr, "mfa", EmptyStr, "")]

\* one valid profile, dev, with an account id; prd declares a role and has
\* no MFA serial, so dev can assume prd's role and prd is not offered
StoreRole ==
    [p \in {"dev", "prd"} |->
        IF p = "dev"
        THEN StaticCredential("dev", "AK", "SK", <<"4">>, "mfa", EmptyStr, "vk")
        ELSE StaticCredential("prd", "AK", "SK", EmptyStr, "", RoleA, "vk")]

\* two valid profiles and no assumable role
StoreTwo ==
    [p \in {"int", "stg"} |->
        StaticCredential(p, "AK", "SK", <<"4">>, "mfa", EmptyStr, "")]

\* the installations the model starts from: a store and the ECR opt-in
Config(store, ecr) == [store |-> store, ecr |-> ecr]
Configs ==
    {Config(StoreNoValid, FALSE), Config(StoreSingle, FALSE),
     Config(StoreSingle, TRUE), Config(StoreRole, TRUE),
     Config(StoreTwo, FALSE)}

\* the reverse index LoadCredentialsFile leaves for a store without repeated
\* role ids: every non-empty assumable role id maps to its profile
RoleIndexOf(creds) ==
    LET roles == {creds[p].AssumableRoleID : p \in DOMAIN creds} \ {EmptyStr}
    IN  [r \in roles |->
            CHOOSE p \in DOMAIN creds : creds[p].AssumableRoleID = r]

----------------------------------------------------------------------------
(* Auth drivers: names, the Manual driver, AWSService.GetMFACode *)

\* strings.ToLower on the pieces of the model's driver names
LowerOf(piece) ==
    CASE piece \in {"manual", "Manual", "MANUAL"} -> "manual"
      [] piece \in {"1password", "1Password", "1PASSWORD"} -> "1password"
      [] OTHER -> piece

ToLower(s) == [i \in 1..Len(s) |-> LowerOf(s[i])]

\* fmt.Errorf: the text of the error and the value it is formatted with;
\* nil is <<>>
Errorf(message, value) == <<message, value>>

\* AuthDriverName.String
AuthDriverString(d) ==
    CASE d = AuthDriverManual -> <<"manual">>
      [] d = AuthDriver1Password -> <<"1password">>
      [] OTHER -> <<"unknown">>

\* a faulty parser that compares the name as it is written
ParseAuthDriverCaseSensitive(s) ==
    LET name == TrimSpace(s)
    IN  CASE name = <<"manual">> ->
                [driver |-> AuthDriverManual, ok |-> TRUE, err |-> <<>>]
          [] name = <<"1password">> ->
                [driver |-> AuthDriver1Password, ok |-> TRUE, err |-> <<>>]
          [] OTHER ->
                [driver |-> AuthDriverManual, ok |-> FALSE,
                 err |-> Errorf("invalid auth driver '%s', valid options are: manual, 1password", s)]

\* ParseAuthDriver: the driver and the error
ParseAuthDriver(s) ==
    LET name == ToLower(TrimSpace(s))
    IN  CASE name = <<"manual">> ->
                [driver |-> AuthDriverManual, ok |-> TRUE, err |-> <<>>]
          [] name = <<"1password">> ->
                [driver |-> AuthDriver1Password, ok |-> TRUE, err |-> <<>>]
          [] OTHER ->
                [driver |-> AuthDriverManual, ok |-> FALSE,
                 err |-> Errorf("invalid auth driver '%s', valid options are: manual, 1password", s)]

\* GetAuthDriverFromEnv, for the value os.Getenv returns: empty when the
\* variable is not set
GetAuthDriverFromEnv(driverStr) ==
    IF driverStr = <<>>
    THEN [driver |-> AuthDriverManual, ok |-> TRUE, err |-> <<>>]
    ELSE LET parsed == ParseAuthDriver(driverStr)
         IN  IF ~parsed.ok
             THEN [driver |-> AuthDriverManual, ok |-> FALSE,
                   err |-> Errorf("AWS_LOGIN_AUTH_DRIVER environment variable error: %w",
                                  parsed.err)]
             ELSE parsed

\* the methods of ManualDriver: what each returns
ManualDriver ==
    [GetToken |-> [code |-> EmptyStr, ok |-> FALSE,
                   err |-> Errorf("manual token input should be handled by UI layer", <<>>)],
     YieldsMFACode |-> FALSE,
     GetMFACode |-> [code |-> EmptyStr, ok |-> FALSE,
                     err |-> Errorf("manual driver cannot yield MFA code", <<>>)],
     IsInstalled |-> TRUE]

\* the methods of OnePasswordDriver; otp is what `op item get --otp` does
OnePasswordDriver(otp) ==
    [YieldsMFACode |-> TRUE,
     GetMFACode |->
        CASE otp = "ok" -> [code |-> <<"9", "9", "9", "9", "9", "9">>,
                            ok |-> TRUE, err |-> <<>>]
          [] otp = "empty" ->
                [code |-> EmptyStr, ok |-> FALSE,
                 err |-> Errorf("empty MFA code from 1Password", <<>>)]
          [] OTHER ->
                [code |-> EmptyStr, ok |-> FALSE,
                 err |-> Errorf("failed to retrieve MFA code from 1Password with vault key %s: %w", <<>>)]]

\* a faulty AWSService.GetMFACode that asks the driver whatever it yields
ServiceGetMFACodeAlways(authDriver, otp) ==
    IF authDriver = "nil"
    THEN [code |-> EmptyStr, ok |-> FALSE, calls |-> <<>>,
          err |-> Errorf("auth driver not initialized", <<>>)]
    ELSE LET d == IF authDriver = AuthDriverManual
                  THEN ManualDriver ELSE OnePasswordDriver(otp)
         IN  [code |-> d.GetMFACode.code, ok |-> d.GetMFACode.ok,
              err |-> d.GetMFACode.err, calls |-> <<"GetMFACode">>]

\* AWSService.GetMFACode(authDriver): the code, the error, and the methods
\* of the driver that were called
ServiceGetMFACode(authDriver, otp) ==
    IF authDriver = "nil"
    THEN [code |-> EmptyStr, ok |-> FALSE, calls |-> <<>>,
          err |-> Errorf("auth driver not initialized", <<>>)]
    ELSE LET d == IF authDriver = AuthDriverManual
                  THEN ManualDriver ELSE OnePasswordDriver(otp)
         IN  IF ~d.YieldsMFACode
             THEN [code |-> EmptyStr, ok |-> FALSE,
                   calls |-> <<"YieldsMFACode">>,
                   err |-> Errorf("auth driver does not yield MFA code", <<>>)]
             ELSE [code |-> d.GetMFACode.code, ok |-> d.GetMFACode.ok,
                   err |-> d.GetMFACode.err,
                   calls |-> <<"YieldsMFACode", "GetMFACode">>]

----------------------------------------------------------------------------
(* LoadCredentialsFile: the scanner loop over the lines of the file *)

\* m[k] = v of a Go map
Put(m, k, v) == [x \in DOMAIN m \cup {k} |-> IF x = k THEN v ELSE m[x]]

\* make(map[...]...)
EmptyMap == [x \in {} |-> x]

\* a faulty save that does not ask for a name
SaveProfileAnyName(creds, index, name, cred) ==
    [credentials |-> Put(creds, name, cred),
     roleArnToProfile |->
         IF cred.AssumableRoleID # EmptyStr
         THEN Put(index, cred.AssumableRoleID, name)
         ELSE index]

\* "Save previous profile if it exists": the credential map and the reverse
\* index after the section being built has been stored
SaveProfile(creds, index, name, cred) ==
    IF name # ""
    THEN [credentials |-> Put(creds, name, cred),
          roleArnToProfile |->
              IF cred.AssumableRoleID # EmptyStr
              THEN Put(index, cred.AssumableRoleID, name)
              ELSE index]
    ELSE [credentials |-> creds, roleArnToProfile |-> index]

\* the switch over the key of a key = value line
SetField(cred, key, value) ==
    CASE key = "aws_access_key_id" -> [cred EXCEPT !.AccessKey = Str(value)]
      [] key = "aws_secret_access_key" -> [cred EXCEPT !.AccessSecret = Str(value)]
      [] key \in {"account_id", "aws_account_id"} -> [cred EXCEPT !.AccountID = value]
      [] key = "mfa_serial" -> [cred EXCEPT !.MfaSerial = Str(value)]
      [] key = "assumable_role_id" -> [cred EXCEPT !.AssumableRoleID = value]
      [] key = "vault_key" -> [cred EXCEPT !.VaultKey = Str(value)]
      [] OTHER -> cred

\* a faulty key = value step that does not ask for an open section
ParseKeyValueAnywhere(name, cred, line) ==
    IF Contains(line, "=")
    THEN LET parts == SplitN2(line, "=")
             value == TrimSpace(parts[2])
         IN  IF value = EmptyStr
             THEN cred
             ELSE SetField(cred, Str(TrimSpace(parts[1])), value)
    ELSE cred

\* a faulty key = value step that assigns empty values too
ParseKeyValueSetsEmpty(name, cred, line) ==
    IF name # "" /\ Contains(line, "=")
    THEN LET parts == SplitN2(line, "=")
         IN  SetField(cred, Str(TrimSpace(parts[1])), TrimSpace(parts[2]))
    ELSE cred

\* the credential being built after a line that is neither blank, comment
\* nor header
ParseKeyValue(name, cred, line) ==
    IF name # "" /\ Contains(line, "=")
    THEN LET parts == SplitN2(line, "=")
             key == Str(TrimSpace(parts[1]))
             value == TrimSpace(parts[2])
         IN  IF value = EmptyStr THEN cred ELSE SetField(cred, key, value)
    ELSE cred

IsSkipped(line) == line = <<>> \/ HasPrefix(line, "#")
IsHeader(line) == HasPrefix(line, "[") /\ HasSuffix(line, "]")

\* loadCredentialsFromContent, "Parse key-value pairs": the value is
\* assigned whatever it is
ContentKeyValue(name, cred, line) ==
    IF name # "" /\ Contains(line, "=")
    THEN LET parts == SplitN2(line, "=")
             key == Str(TrimSpace(parts[1]))
             value == TrimSpace(parts[2])
         IN  SetField(cred, key, value)
    ELSE cred

\* loadCredentialsFromContent, one iteration of the loop over the lines:
\* st holds the reader's two maps and the locals currentProfile and
\* currentCredential
ContentLine(st, raw) ==
    LET line == TrimSpace(raw)
        saved == SaveProfile(st.credentials, st.roleArnToProfile,
                             st.currentProfile, st.currentCredential)
    IN  IF IsSkipped(line)
        THEN st
        ELSE IF IsHeader(line)
             THEN LET name == Str(Trim(line, {"[", "]"}))
                  IN  [credentials |-> saved.credentials,
                       roleArnToProfile |-> saved.roleArnToProfile,
                       currentProfile |-> name,
                       currentCredential |->
                           [ZeroCredential EXCEPT !.ProfileName = name]]
             ELSE [st EXCEPT !.currentCredential =
                      ContentKeyValue(st.currentProfile, st.currentCredential,
                                      line)]

\* the loop over lines[i..]
RECURSIVE ContentLoop(_, _, _)
ContentLoop(st, lines, i) ==
    IF i > Len(lines)
    THEN st
    ELSE ContentLoop(ContentLine(st, lines[i]), lines, i + 1)

\* loadCredentialsFromContent on a reader with the maps creds and index:
\* the maps it leaves; lines is strings.Split(content, "\n")
LoadCredentialsFromContent(creds, index, lines) ==
    LET st == ContentLoop([credentials |-> creds,
                           roleArnToProfile |-> index,
                           currentProfile |-> "",
                           currentCredential |-> ZeroCredential], lines, 1)
    IN  SaveProfile(st.credentials, st.roleArnToProfile, st.currentProfile,
                    st.currentCredential)

\* the lines of the credentials texts the model reads
LineHeader(name) == <<"[", name, "]">>
LineKeyValue(key, value) == <<key, " ", "=", " ">> \o value
ProfileNames == {"default", "int", "prd"}
Lines ==
    {LineHeader("default"), LineHeader("int"), <<" ">> \o LineHeader("prd") \o <<" ">>,
     LineKeyValue("aws_access_key_id", <<"AK">>),
     LineKeyValue("aws_secret_access_key", <<"SK">>),
     LineKeyValue("mfa_serial", <<"mfa">>),
     LineKeyValue("assumable_role_id", RoleA),
     LineKeyValue("assumable_role_id", RoleB),
     LineKeyValue("assumable_role_id", <<>>),
     <<>>, <<"#", " ", "note">>, <<"region">>}

----------------------------------------------------------------------------
(* Credential store queries (CredentialReader, AWSService) *)

\* every enumeration of a finite set: the orders a Go map range may take
Perms(S) ==
    {f \in [1..Cardinality(S) -> S] : \A i, j \in DOMAIN f : f[i] = f[j] => i = j}

\* a faulty condition that does not ask for the MFA serial
IsValidProfileWithoutSerial(credential) ==
    /\ credential.AccessKey # ""
    /\ credential.AccessSecret # ""

\* the condition under which GetValidProfiles appends a profile
IsValidProfile(credential) ==
    /\ credential.AccessKey # ""
    /\ credential.AccessSecret # ""
    /\ credential.MfaSerial # ""

\* GetCredential: the stored credential and whether the name is stored; a Go
\* map yields the zero value for a key it does not hold
GetCredential(creds, name) ==
    IF name \in DOMAIN creds
    THEN [credential |-> creds[name], exists |-> TRUE]
    ELSE [credential |-> ZeroCredential, exists |-> FALSE]

\* the profiles GetValidProfiles returns, in any order
GetValidProfiles(creds) == {p \in DOMAIN creds : IsValidProfile(creds[p])}

\* the slice GetValidProfiles builds when the map is ranged in `order`
RECURSIVE ValidProfilesIn(_, _)
ValidProfilesIn(creds, order) ==
    IF order = <<>>
    THEN <<>>
    ELSE LET name == Head(order)
             rest == ValidProfilesIn(creds, Tail(order))
         IN  IF IsValidProfile(creds[name])
             THEN <<name>> \o rest
             ELSE rest

\* the slice GetAssumableRoles builds when the map is ranged in `order`
RECURSIVE AssumableRolesIn(_, _, _)
AssumableRolesIn(creds, order, forProfile) ==
    IF order = <<>>
    THEN <<>>
    ELSE LET name == Head(order)
             rest == AssumableRolesIn(creds, Tail(order), forProfile)
         IN  IF name = forProfile
             THEN rest
             ELSE IF creds[name].AssumableRoleID # EmptyStr
                  THEN <<creds[name].AssumableRoleID>> \o rest
                  ELSE rest

\* a faulty query that never skips the current profile
GetAssumableRolesOfAll(creds, forProfile) ==
    {AssumableRolesIn(creds, order, "") : order \in Perms(DOMAIN creds)}

\* the slices GetAssumableRoles(profile) may return
GetAssumableRoles(creds, forProfile) ==
    {AssumableRolesIn(creds, order, forProfile) : order \in Perms(DOMAIN creds)}

\* a missing key of a Go map reads as the zero value ""
GetProfileByRoleArn(index, roleArn) ==
    IF roleArn \in DOMAIN index THEN index[roleArn] ELSE ""

\* AWSService.GetAssumableRoles: the slices the wrapper may return
ServiceGetAssumableRoles(reader, creds, forProfile) ==
    IF reader = "nil" THEN {<<>>} ELSE GetAssumableRoles(creds, forProfile)

\* AWSService.GetAssumedProfileName
GetAssumedProfileName(reader, index, roleArn) ==
    IF reader = "nil" THEN "" ELSE GetProfileByRoleArn(index, roleArn)

ErrProfileNotFound(p) == <<"profile not found in credentials", p>>
ErrMfaNotConfigured(p) == <<"MFA serial not configured for profile", p>>

\* GetMFASerial: [ok, serial] or [ok = FALSE, err]
GetMFASerial(creds, p) ==
    IF p \notin DOMAIN creds
    THEN [ok |-> FALSE, err |-> ErrProfileNotFound(p)]
    ELSE IF creds[p].MfaSerial = ""
         THEN [ok |-> FALSE, err |-> ErrMfaNotConfigured(p)]
         ELSE [ok |-> TRUE, serial |-> creds[p].MfaSerial]

\* a faulty GetCredentials whose pointer refers to the entry of the map
ServiceGetCredentialsShared(reader, creds, p) ==
    IF reader = "nil"
    THEN [points |-> "nil", pointee |-> ZeroCredential,
          err |-> <<"credential reader not initialized", "">>]
    ELSE LET got == GetCredential(creds, p)
         IN  IF ~got.exists
             THEN [points |-> "nil", pointee |-> ZeroCredential,
                   err |-> ErrProfileNotFound(p)]
             ELSE [points |-> "store", pointee |-> got.credential,
                   err |-> NoErr]

\* AWSService.GetCredentials: GetCredential returns the map's value into
\* the local variable credential, and the pointer handed out is &credential
ServiceGetCredentials(reader, creds, p) ==
    IF reader = "nil"
    THEN [points |-> "nil", pointee |-> ZeroCredential,
          err |-> <<"credential reader not initialized", "">>]
    ELSE LET got == GetCredential(creds, p)
         IN  IF ~got.exists
             THEN [points |-> "nil", pointee |-> ZeroCredential,
                   err |-> ErrProfileNotFound(p)]
             ELSE [points |-> "copy", pointee |-> got.credential,
                   err |-> NoErr]

\* the Unicode code point of a character of the model's strings
CodePoint(c) ==
    CASE c = "0" -> 48 [] c = "1" -> 49 [] c = "2" -> 50 [] c = "3" -> 51
      [] c = "4" -> 52 [] c = "5" -> 53 [] c = "6" -> 54 [] c = "7" -> 55
      [] c = "8" -> 56 [] c = "9" -> 57 [] c = " " -> 32 [] c = "-" -> 45
      [] c = "a" -> 97 [] c = "e-acute" -> 233

\* the bytes of a character in UTF-8, for the code points of the model
Utf8Len(c) == IF CodePoint(c) < 128 THEN 1 ELSE 2

\* len(s) of a Go string: its length in bytes
RECURSIVE ByteLen(_)
ByteLen(s) == IF s = <<>> THEN 0 ELSE Utf8Len(Head(s)) + ByteLen(Tail(s))

\* a faulty validation that checks the length only
ValidateMFACodeLengthOnly(code) == ByteLen(code) = MFACodeLen

\* true when the loop over the runes of code reaches the end of the string
ValidateMFACode(code) ==
    IF ByteLen(code) # MFACodeLen
    THEN FALSE
    ELSE \A i \in 1..Len(code) :
            ~(CodePoint(code[i]) < CodePoint("0") \/ CodePoint(code[i]) > CodePoint("9"))

----------------------------------------------------------------------------
(* List models (ui/lists): items, cursor, choice, selected *)

\* a *ListModel pointer of the UIManager that is still nil
NilModel(zeroChoice) ==
    [nil |-> TRUE, items |-> <<>>, cursor |-> 1, choice |-> zeroChoice,
     selected |-> FALSE]

NewListModel(items, zeroChoice) ==
    [nil |-> FALSE, items |-> items, cursor |-> 1, choice |-> zeroChoice,
     selected |-> FALSE]

\* list.Model.SelectedItem() is nil on an empty list
HasSelectedItem(m) == m.cursor \in 1..Len(m.items)

\* list.Model.Update for a key: the cursor keys move the highlight inside
\* the list, every other key leaves it where it is
ListUpdate(m, key) ==
    IF key = KeyDown /\ m.cursor < Len(m.items)
    THEN [m EXCEPT !.cursor = m.cursor + 1]
    ELSE IF key = KeyUp /\ m.cursor > 1
         THEN [m EXCEPT !.cursor = m.cursor - 1]
         ELSE m

\* the command list.Model.Update returns: the list's default key map binds
\* esc to tea.Quit
ListQuits(key) == key = KeyEsc

NewProfileListModel(items) == NewListModel(items, "")

\* ProfileListModel.Update: enter records the highlighted profile, and the
\* key is then passed on to the list as well
ProfileListUpdate(m, key) ==
    LET chosen == IF key = KeyEnter /\ HasSelectedItem(m)
                  THEN [m EXCEPT !.choice = m.items[m.cursor],
                                 !.selected = TRUE]
                  ELSE m
    IN  ListUpdate(chosen, key)

\* a faulty driver list that offers every driver
NewDriverListModelUnfiltered(opInstalled) ==
    NewListModel(<<AuthDriverManual, AuthDriver1Password>>, AuthDriverManual)

\* NewDriverListModel: Manual, and 1Password when its CLI probe succeeds
NewDriverListModel(opInstalled) ==
    NewListModel(IF opInstalled
                 THEN <<AuthDriverManual, AuthDriver1Password>>
                 ELSE <<AuthDriverManual>>,
                 AuthDriverManual)

\* DriverListModel.Update: enter records the highlighted driver and returns
DriverListUpdate(m, key) ==
    IF key = KeyEnter /\ HasSelectedItem(m)
    THEN [m EXCEPT !.choice = m.items[m.cursor], !.selected = TRUE]
    ELSE ListUpdate(m, key)

RoleItem(title, role) == [title |-> title, role |-> role]

\* a faulty constructor that lists the roles without the leading entry of
\* the current profile
NewRoleListModelRolesOnly(index, roles, forProfile) ==
    NewListModel(
        [i \in 1..Len(roles) |->
            RoleItem(GetProfileByRoleArn(index, roles[i]), roles[i])],
        EmptyStr)

\* NewRoleListModel: "continue as self" first, then one item per role
NewRoleListModel(index, roles, forProfile) ==
    NewListModel(
        <<RoleItem(forProfile, EmptyStr)>> \o
        [i \in 1..Len(roles) |->
            RoleItem(GetProfileByRoleArn(index, roles[i]), roles[i])],
        EmptyStr)

\* RoleListModel.Update: ctrl+c and esc return tea.Quit, enter records the
\* highlighted item's role, other keys go to the list
RoleListUpdate(m, key) ==
    IF key \in {KeyCtrlC, KeyEsc}
    THEN m
    ELSE IF key = KeyEnter /\ HasSelectedItem(m)
         THEN [m EXCEPT !.choice = m.items[m.cursor].role, !.selected = TRUE]
         ELSE ListUpdate(m, key)

\* the command RoleListModel.Update returns with the model
RoleListQuits(key) == key \in {KeyCtrlC, KeyEsc}

\* textinput.Model.Update for a key: the runes of a rune key are appended as
\* far as CharLimit leaves room
MfaInputUpdate(value, key) ==
    IF key \in CharKeys
    THEN LET all == value \o Runes(key)
         IN  SubSeq(all, 1, IF Len(all) < CharLimit THEN Len(all) ELSE CharLimit)
    ELSE value

----------------------------------------------------------------------------
(* Messages and commands of the flow (ui/ui.go) *)

Msg(type, stp, data, e) == [type |-> type, step |-> stp, data |-> data, err |-> e]

\* stepCompleteMsg{step, data}; only the driver step's handler reads data
StepCompleteMsg(stp, data) == Msg("stepCompleteMsg", stp, data, NoErr)
ErrorMsg(e) == Msg("errorMsg", "-", NoData, e)
\* doneMsg(true), the only doneMsg the program builds
DoneMsg == Msg("doneMsg", "-", "true", NoErr)
QuitMsg == Msg("quitMsg", "-", NoData, NoErr)
TeaQuitMsg == Msg("tea.QuitMsg", "-", NoData, NoErr)
\* the closure of the driver step, which reads u.authDriverName when it runs
DriverCompleteCmd == Msg("cmd:driverComplete", StepDriverSelection, NoData, NoErr)
\* the two-second tick that clears the transient error text
ClearStepTick == Msg("cmd:clearStepTick", "-", NoData, NoErr)
NoMsg == Msg("none", "-", NoData, NoErr)

ErrInvalidMFA == "Invalid MFA code - must be 6 digits"

\* the UIManager fields Update reads and writes, with the commands it
\* returns: `out` are messages and simple commands, `spawn` the commands
\* that call external processes
UI ==
    [currentStep |-> currentStep, profile |-> profile,
     authDriverName |-> authDriverName, selectedRole |-> selectedRole,
     mfaCode |-> mfaCode, profileModel |-> profileModel,
     driverModel |-> driverModel, roleModel |-> roleModel,
     mfaInput |-> mfaInput, err |-> err, success |-> success, step |-> step,
     out |-> <<>>, spawn |-> <<>>]

\* what initCurrentStep obtains from outside the UIManager: the order in
\* which the store's maps are ranged and the 1Password CLI probe
Choices ==
    [profiles : Perms(GetValidProfiles(credentials)),
     roles : GetAssumableRoles(credentials, profile),
     opInstalled : BOOLEAN]

\* initCurrentStep, case StepMFAInput
InitMFAInput(u) ==
    IF u.authDriverName # AuthDriverManual
    THEN [u EXCEPT !.spawn = Append(@, "tryAutoMFA")]
    ELSE u

\* initCurrentStep, case StepRoleSelection
InitRoleSelection(u, ch) ==
    IF Len(ch.roles) = 0
    THEN InitMFAInput([u EXCEPT !.currentStep = StepMFAInput])
    ELSE [u EXCEPT !.roleModel =
                NewRoleListModel(roleArnToProfile, ch.roles, u.profile)]

\* initCurrentStep, case StepProfileSelection
InitProfileSelection(u, ch) ==
    LET withModel ==
            [u EXCEPT !.profileModel = NewProfileListModel(ch.profiles)]
    IN  IF Len(ch.profiles) = 1
        THEN [withModel EXCEPT
                !.profile = ch.profiles[1],
                !.out = Append(@, StepCompleteMsg(StepProfileSelection, NoData))]
        ELSE withModel

initCurrentStep(u, ch) ==
    CASE u.currentStep = StepProfileSelection -> InitProfileSelection(u, ch)
      [] u.currentStep = StepDriverSelection ->
            [u EXCEPT !.driverModel = NewDriverListModel(ch.opInstalled)]
      [] u.currentStep = StepRoleSelection -> InitRoleSelection(u, ch)
      [] u.currentStep = StepMFAInput -> InitMFAInput(u)
      [] u.currentStep = StepProcessing ->
            [u EXCEPT !.spawn = Append(@, "processAuthentication")]
      [] OTHER -> u

\* handleCurrentStep, case StepProfileSelection
HandleProfileKey(u, key) ==
    IF u.profileModel.nil
    THEN u
    ELSE LET m == ProfileListUpdate(u.profileModel, key)
             v == [u EXCEPT !.profileModel = m]
         IN  IF m.selected \/ Cardinality(GetValidProfiles(credentials)) = 1
             THEN [v EXCEPT
                     !.profile = m.choice,
                     !.out = Append(@, StepCompleteMsg(StepProfileSelection, NoData))]
             ELSE IF ListQuits(key)
                  THEN [v EXCEPT !.out = Append(@, TeaQuitMsg)]
                  ELSE v

\* handleCurrentStep, case StepDriverSelection
HandleDriverKey(u, key) ==
    IF u.driverModel.nil
    THEN u
    ELSE LET m == DriverListUpdate(u.driverModel, key)
             v == [u EXCEPT !.driverModel = m]
         IN  IF m.selected
             THEN [v EXCEPT !.authDriverName = m.choice,
                            !.out = Append(@, DriverCompleteCmd)]
             ELSE IF ListQuits(key)
                  THEN [v EXCEPT !.out = Append(@, TeaQuitMsg)]
                  ELSE v

\* handleCurrentStep, case StepRoleSelection
HandleRoleKey(u, key) ==
    IF u.roleModel.nil
    THEN u
    ELSE LET m == RoleListUpdate(u.roleModel, key)
             v == [u EXCEPT !.roleModel = m]
         IN  IF m.selected
             THEN [v EXCEPT
                     !.selectedRole = m.choice,
                     !.out = Append(@, StepCompleteMsg(StepRoleSelection, NoData))]
             ELSE IF RoleListQuits(key)
                  THEN [v EXCEPT !.out = Append(@, TeaQuitMsg)]
                  ELSE v

\* a faulty handler that completes the step whatever the field holds
HandleMFAKeyAcceptsAll(u, key) ==
    IF u.authDriverName = AuthDriverManual /\ key = KeyEnter
    THEN [u EXCEPT
            !.mfaCode = u.mfaInput,
            !.out = Append(@, StepCompleteMsg(StepMFAInput, NoData))]
    ELSE u

\* handleCurrentStep, case StepMFAInput
HandleMFAKey(u, key) ==
    IF u.authDriverName = AuthDriverManual
    THEN IF key = KeyEnter
         THEN IF ValidateMFACode(u.mfaInput)
              THEN [u EXCEPT
                      !.mfaCode = u.mfaInput,
                      !.out = Append(@, StepCompleteMsg(StepMFAInput, NoData))]
              ELSE [u EXCEPT !.step = ErrInvalidMFA,
                             !.mfaInput = EmptyStr,
                             !.out = Append(@, ClearStepTick)]
         ELSE [u EXCEPT !.mfaInput = MfaInputUpdate(u.mfaInput, key)]
    ELSE u

handleCurrentStep(u, key) ==
    CASE u.currentStep = StepProfileSelection -> HandleProfileKey(u, key)
      [] u.currentStep = StepDriverSelection -> HandleDriverKey(u, key)
      [] u.currentStep = StepRoleSelection -> HandleRoleKey(u, key)
      [] u.currentStep = StepMFAInput -> HandleMFAKey(u, key)
      [] OTHER -> u

\* the step handleStepComplete assigns to currentStep for a completed step
NextStep(stp) ==
    CASE stp = StepProfileSelection -> StepDriverSelection
      [] stp = StepDriverSelection -> StepRoleSelection
      [] stp = StepRoleSelection -> StepMFAInput
      [] stp = StepMFAInput -> StepProcessing

handleStepComplete(u, m, ch) ==
    IF m.step \in {StepProfileSelection, StepRoleSelection, StepMFAInput}
    THEN initCurrentStep([u EXCEPT !.currentStep = NextStep(m.step)], ch)
    ELSE IF m.step = StepDriverSelection
         THEN initCurrentStep(
                 [u EXCEPT !.currentStep = NextStep(m.step),
                           !.authDriverName = m.data], ch)
         ELSE u

\* a faulty Update that also hands ctrl+c to the current step's handler
UpdateKeyHandsOver(u, key) ==
    IF key = KeyCtrlC
    THEN [handleCurrentStep(u, key) EXCEPT !.out = Append(@, QuitMsg)]
    ELSE handleCurrentStep(u, key)

\* Update, case tea.KeyMsg
UpdateKey(u, key) ==
    IF key = KeyCtrlC
    THEN [u EXCEPT !.out = Append(@, QuitMsg)]
    ELSE handleCurrentStep(u, key)

\* Update, case errorMsg
UpdateError(u, m) ==
    [u EXCEPT !.err = m.err, !.currentStep = StepDone,
              !.out = Append(@, QuitMsg)]

\* Update, case doneMsg
UpdateDone(u, m) ==
    [u EXCEPT !.success = (m.data = "true"), !.currentStep = StepDone,
              !.out = Append(@, QuitMsg)]

\* Update, case quitMsg: the command is tea.Quit, which yields tea.QuitMsg
UpdateQuit(u) == [u EXCEPT !.out = Append(@, TeaQuitMsg)]

\* Update, case tea.QuitMsg
UpdateTeaQuit(u) == [u EXCEPT !.currentStep = StepQuit]

----------------------------------------------------------------------------
(* External-call commands: tryAutoMFA and processAuthentication *)

ErrNotYield == <<"auth driver does not yield MFA code", "">>
ErrNotInstalled == <<"1Password CLI is not installed or not available in PATH", "">>
ErrUnknownDriver == <<"unknown auth driver", AuthDriverUnknown>>
ErrVault == <<"failed to retrieve MFA code from 1Password", "">>
ErrVaultEmpty == <<"empty MFA code from 1Password", "">>
ErrSessionToken == <<"failed to get AWS session token", "">>
ErrAssumeRole == <<"failed to assume role", "">>
ErrWriteFile == <<"failed to write credentials to JSON file", "">>

\* the one-time password the vault CLI prints
VaultCode == <<"9", "9", "9", "9", "9", "9">>

\* one external exchange made by a command, and whether it returned success
Call(name, ok) == [call |-> name, ok |-> ok]

NewTask(kind) == [kind |-> kind, pc |-> "start", calls |-> <<>>, ret |-> NoMsg]

\* credentials as published: which exchange produced them, for which profile
NoCred == [kind |-> "none", profile |-> ""]
SessionCred(p) == [kind |-> "session-token", profile |-> p]
AssumedCred(p) == [kind |-> "assume-role", profile |-> p]

\* GetDriver followed by AWSService.GetMFACode, as tryAutoMFA calls them:
\* `installed` is the CLI probe, `otp` what the vault CLI does
AutoMFAResult(driverName, installed, otp) ==
    CASE driverName = AuthDriverManual ->
            [ok |-> FALSE, err |-> ErrNotYield, calls |-> <<>>]
      [] driverName = AuthDriver1Password ->
            IF ~installed
            THEN [ok |-> FALSE, err |-> ErrNotInstalled, calls |-> <<>>]
            ELSE IF otp = "ok"
                 THEN [ok |-> TRUE, err |-> NoErr,
                       calls |-> <<Call("vault-otp", TRUE)>>]
                 ELSE [ok |-> FALSE,
                       err |-> IF otp = "empty" THEN ErrVaultEmpty ELSE ErrVault,
                       calls |-> <<Call("vault-otp", otp = "empty")>>]
      [] OTHER -> [ok |-> FALSE, err |-> ErrUnknownDriver, calls |-> <<>>]

\* persistCredentials: the environment is set first, then the file is
\* written; a failed write leaves the old file and returns an error
PersistEnv(cred) == [AWS_PROFILE |-> cred.profile, cred |-> cred]
PersistArtifact(cred, writeOk, old) == IF writeOk THEN cred ELSE old

\* GetSessionToken(profile, code): `sts` is what the CLI call does, `writeOk`
\* whether the artifact can be written
SessionTokenResult(creds, p, sts, writeOk) ==
    LET serial == GetMFASerial(creds, p)
    IN  IF ~serial.ok
        THEN [ok |-> FALSE, err |-> serial.err, calls |-> <<>>, published |-> FALSE]
        ELSE IF ~sts
             THEN [ok |-> FALSE, err |-> ErrSessionToken,
                   calls |-> <<Call("get-session-token", FALSE)>>,
                   published |-> FALSE]
             ELSE [ok |-> writeOk, err |-> IF writeOk THEN NoErr ELSE ErrWriteFile,
                   calls |-> <<Call("get-session-token", writeOk)>>,
                   published |-> TRUE]

\* AssumeRole(profile, roleArn)
AssumeRoleResult(sts, writeOk) ==
    IF ~sts
    THEN [ok |-> FALSE, err |-> ErrAssumeRole,
          calls |-> <<Call("assume-role", FALSE)>>, published |-> FALSE]
    ELSE [ok |-> writeOk, err |-> IF writeOk THEN NoErr ELSE ErrWriteFile,
          calls |-> <<Call("assume-role", writeOk)>>, published |-> TRUE]

\* LoginToECR: "nil", "error", or "panic" when the account id has to come
\* from a role id with fewer than five ':'-separated fields
LoginToECR(attempt, creds, envProfile, pwOk, dockerOk) ==
    IF ~attempt
    THEN [result |-> "error", calls |-> <<>>]
    ELSE IF envProfile \notin DOMAIN creds
         THEN [result |-> "error", calls |-> <<>>]
         ELSE IF ~pwOk
              THEN [result |-> "error",
                    calls |-> <<Call("ecr-get-login-password", FALSE)>>]
              ELSE IF /\ creds[envProfile].AccountID = EmptyStr
                      /\ Len(Split(creds[envProfile].AssumableRoleID, ":"))
                            <= AccountField
                   THEN [result |-> "panic",
                         calls |-> <<Call("ecr-get-login-password", TRUE)>>]
                   ELSE [result |-> IF dockerOk THEN "nil" ELSE "error",
                         calls |-> <<Call("ecr-get-login-password", TRUE),
                                     Call("docker-login", dockerOk)>>]

----------------------------------------------------------------------------
(* The program as a state machine *)

NoExit == [kind |-> "none", err |-> NoErr, profile |-> "", ecr |-> FALSE]

\* View, case StepDone: the exit message it stores while rendering
View(u, result, old) ==
    IF u.currentStep = StepDone
    THEN IF u.success
         THEN [kind |-> "success", err |-> NoErr, profile |-> u.profile,
               ecr |-> result.ECRAuth]
         ELSE IF u.err # NoErr
              THEN [kind |-> "error", err |-> u.err, profile |-> "",
                    ecr |-> FALSE]
              ELSE old
    ELSE old

RangeOf(seq) == {seq[i] : i \in 1..Len(seq)}

SeqToBag(seq) ==
    [x \in RangeOf(seq) |-> Cardinality({i \in 1..Len(seq) : seq[i] = x})]

\* no library call has been made
\* fn is the function; profile is a name argument, text a role id or MFA code
\* argument; names, roles, name and ok are the returned slice of profile
\* names, slice of role ids, profile name and boolean
\* points tells what a returned *StaticCredential refers to ("nil", a
\* variable of its own "copy", or the map's entry "store"), pointee is the
\* value read through it
\* store and index are the maps of a second reader a test helper has
\* filled
NoCall ==
    [fn |-> "none", profile |-> "", text |-> EmptyStr, names |-> <<>>,
     roles |-> <<>>, name |-> "", ok |-> FALSE, credential |-> ZeroCredential,
     driver |-> "nil", err |-> <<>>, calls |-> <<>>, returned |-> FALSE,
     points |-> "nil", pointee |-> ZeroCredential,
     store |-> EmptyMap, index |-> EmptyMap]

\* the locals of LoadCredentialsFile outside the call
LoaderLocalsGone ==
    /\ currentProfile = ""
    /\ currentCredential = ZeroCredential
    /\ headers = 0

\* the content of the credentials file is not followed
NoText ==
    /\ text = <<>>
    /\ lineNo = 0

\* the fields of the UIManager that Start does not take from its arguments,
\* and an environment nothing has been published to
UIManagerZero ==
    /\ currentStep = StepProfileSelection
    /\ profile = ""
    /\ selectedRole = EmptyStr
    /\ mfaCode = EmptyStr
    /\ profileModel = NilModel("")
    /\ driverModel = NilModel(AuthDriverManual)
    /\ roleModel = NilModel(EmptyStr)
    /\ mfaInput = EmptyStr
    /\ sessionResult = [User |-> "", ECRAuth |-> FALSE]
    /\ err = NoErr
    /\ success = FALSE
    /\ step = ""
    /\ exitMessage = NoExit
    /\ msgs = EmptyBag
    /\ tasks = <<>>
    /\ env = [AWS_PROFILE |-> "", cred |-> NoCred]
    /\ artifact = NoCred

\* ui.Start: the UIManager as constructed, with the store NewAWSService loaded
Init ==
    /\ phase = "constructed"
    /\ \E c \in Configs :
          /\ credentials = c.store
          /\ attemptECRLogin = c.ecr
    /\ roleArnToProfile = RoleIndexOf(credentials)
    /\ authDriverName \in AuthDriverName
    /\ credentialReader = "reader"
    /\ loadPc = "returned"
    /\ LoaderLocalsGone
    /\ NoText
    /\ call = NoCall
    /\ UIManagerZero

\* one pass of the event loop: Update has produced u from message m, its
\* command is handed to the runtime and View renders the new state; once the
\* loop has stopped, what is still pending is never delivered
Commit(u, consumed, nextPhase) ==
    /\ Len(tasks) + Len(u.spawn) <= MaxTasks
    /\ phase' = nextPhase
    /\ currentStep' = u.currentStep
    /\ profile' = u.profile
    /\ authDriverName' = u.authDriverName
    /\ selectedRole' = u.selectedRole
    /\ mfaCode' = u.mfaCode
    /\ profileModel' = u.profileModel
    /\ driverModel' = u.driverModel
    /\ roleModel' = u.roleModel
    /\ mfaInput' = u.mfaInput
    /\ err' = u.err
    /\ success' = u.success
    /\ step' = u.step
    /\ exitMessage' = View(u, sessionResult, exitMessage)
    /\ msgs' = IF nextPhase = "running"
               THEN (msgs (-) SeqToBag(consumed)) (+) SeqToBag(u.out)
               ELSE EmptyBag
    /\ tasks' = tasks \o [i \in 1..Len(u.spawn) |-> NewTask(u.spawn[i])]
    /\ UNCHANGED <<storeVars, sessionResult, publishVars>>

\* tea.NewProgram(uiManager).Run(): Init() and the first render
ProgramInit ==
    /\ phase = "constructed"
    /\ \E ch \in Choices :
          Commit(initCurrentStep(UI, ch), <<>>, "running")

\* the keys the model presses in a state: any key, except that the letter
\* is typed into the MFA field only as its first character
Pressable == {key \in Keys : key = KeyLetter => mfaInput = EmptyStr}

\* Update is called with the tea.KeyMsg of `key`; keys arrive while fewer
\* than MaxPending messages are pending
KeyStep(key) ==
    /\ phase = "running"
    /\ BagCardinality(msgs) < MaxPending
    /\ key \in Pressable
    /\ Commit(UpdateKey(UI, key), <<>>, "running")

\* a key press reaches Update
KeyPress == \E key \in Keys : KeyStep(key)

\* Update is called with the pending stepCompleteMsg m
StepCompleteStep(m) ==
    /\ phase = "running"
    /\ BagIn(m, msgs)
    /\ m.type = "stepCompleteMsg"
    /\ \E ch \in Choices :
          Commit(handleStepComplete(UI, m, ch), <<m>>, "running")

DeliverStepComplete == \E m \in BagToSet(msgs) : StepCompleteStep(m)

\* Update is called with the pending errorMsg m
ErrorStep(m) ==
    /\ phase = "running"
    /\ BagIn(m, msgs)
    /\ m.type = "errorMsg"
    /\ Commit(UpdateError(UI, m), <<m>>, "running")

DeliverError == \E m \in BagToSet(msgs) : ErrorStep(m)

DeliverDone ==
    /\ phase = "running"
    /\ \E m \in BagToSet(msgs) :
          /\ m.type = "doneMsg"
          /\ Commit(UpdateDone(UI, m), <<m>>, "running")

DeliverQuit ==
    /\ phase = "running"
    /\ BagIn(QuitMsg, msgs)
    /\ Commit(UpdateQuit(UI), <<QuitMsg>>, "running")

\* tea.QuitMsg: Update's last call, after which Run returns
DeliverTeaQuit ==
    /\ phase = "running"
    /\ BagIn(TeaQuitMsg, msgs)
    /\ Commit(UpdateTeaQuit(UI), <<TeaQuitMsg>>, "stopped")

\* the driver step's closure runs and builds its stepCompleteMsg
RunDriverCompleteCmd ==
    /\ phase = "running"
    /\ BagIn(DriverCompleteCmd, msgs)
    /\ msgs' = (msgs (-) SetToBag({DriverCompleteCmd}))
                  (+) SetToBag({StepCompleteMsg(StepDriverSelection, authDriverName)})
    /\ UNCHANGED <<phase, storeVars, flowVars, modelVars, resultVars, tasks,
                   publishVars>>

\* the tick of an invalid-code submission fires: its closure clears u.step
\* and returns no message
RunClearStepTick ==
    /\ phase = "running"
    /\ BagIn(ClearStepTick, msgs)
    /\ msgs' = msgs (-) SetToBag({ClearStepTick})
    /\ step' = ""
    /\ UNCHANGED <<phase, storeVars, flowVars, modelVars, sessionResult, err,
                   success, exitMessage, tasks, publishVars>>

\* a message a command returns: the runtime takes it while the loop runs
Send(m) == IF phase = "running" THEN msgs (+) SetToBag({m}) ELSE msgs

\* a command hands its message over when the pending bag has room for it
Room == phase = "running" => BagCardinality(msgs) < MaxPending

TaskAt(i, kind, pc) ==
    /\ phase \in {"running", "stopped"}
    /\ i \in 1..Len(tasks)
    /\ tasks[i].kind = kind
    /\ tasks[i].pc = pc

\* a command returns message m after the exchanges in calls
Returned(t, calls, m) ==
    [t EXCEPT !.pc = "returned", !.calls = @ \o calls, !.ret = m]

\* tryAutoMFA's command
TryAutoMFA(i) ==
    /\ TaskAt(i, "tryAutoMFA", "start")
    /\ \E installed \in BOOLEAN, otp \in {"ok", "fail", "empty"} :
          LET r == AutoMFAResult(authDriverName, installed, otp)
              m == IF r.ok THEN StepCompleteMsg(StepMFAInput, NoData)
                           ELSE ErrorMsg(r.err)
          IN  /\ Room
              /\ mfaCode' = IF r.ok THEN VaultCode ELSE mfaCode
              /\ tasks' = [tasks EXCEPT ![i] = Returned(@, r.calls, m)]
              /\ msgs' = Send(m)
    /\ UNCHANGED <<phase, storeVars, currentStep, profile, authDriverName,
                   selectedRole, modelVars, resultVars, publishVars>>

\* a faulty pipeline that goes on after a failed GetSessionToken
PcAfterSessionTokenGoesOn(ok) == IF ok THEN "afterSessionToken" ELSE "afterSessionToken"

\* where processAuthentication goes on after GetSessionToken returned
PcAfterSessionToken(ok) == IF ok THEN "afterSessionToken" ELSE "returned"

\* where processAuthentication goes on after AssumeRole returned
PcAfterAssumeRole(ok) == IF ok THEN "registryLogin" ELSE "returned"

\* processAuthentication: GetSessionToken(u.profile, u.mfaCode)
ProcSessionToken(i) ==
    /\ TaskAt(i, "processAuthentication", "start")
    /\ \E sts \in BOOLEAN, writeOk \in BOOLEAN :
          LET r == SessionTokenResult(credentials, profile, sts, writeOk)
              cred == SessionCred(profile)
          IN  /\ r.ok \/ Room
              /\ tasks' = [tasks EXCEPT ![i] =
                    [@ EXCEPT !.pc = PcAfterSessionToken(r.ok),
                              !.calls = @ \o r.calls,
                              !.ret = IF r.ok THEN NoMsg ELSE ErrorMsg(r.err)]]
              /\ msgs' = IF r.ok THEN msgs ELSE Send(ErrorMsg(r.err))
              /\ env' = IF r.published THEN PersistEnv(cred) ELSE env
              /\ artifact' = IF r.published
                             THEN PersistArtifact(cred, writeOk, artifact)
                             ELSE artifact
    /\ UNCHANGED <<phase, storeVars, flowVars, modelVars, resultVars>>

\* processAuthentication: the role branch, AssumeRole and the rebinding of
\* u.profile to the role's owning profile
ProcAssumeRole(i) ==
    /\ TaskAt(i, "processAuthentication", "afterSessionToken")
    /\ IF selectedRole = EmptyStr
       THEN /\ tasks' = [tasks EXCEPT ![i].pc = "registryLogin"]
            /\ UNCHANGED <<msgs, env, artifact, profile>>
       ELSE \E sts \in BOOLEAN, writeOk \in BOOLEAN :
               LET assumedProfileName ==
                       GetProfileByRoleArn(roleArnToProfile, selectedRole)
                   r == AssumeRoleResult(sts, writeOk)
                   cred == AssumedCred(assumedProfileName)
               IN  /\ r.ok \/ Room
                   /\ tasks' = [tasks EXCEPT ![i] =
                         [@ EXCEPT !.pc = PcAfterAssumeRole(r.ok),
                                   !.calls = @ \o r.calls,
                                   !.ret = IF r.ok THEN NoMsg
                                                   ELSE ErrorMsg(r.err)]]
                   /\ msgs' = IF r.ok THEN msgs ELSE Send(ErrorMsg(r.err))
                   /\ env' = IF r.published THEN PersistEnv(cred) ELSE env
                   /\ artifact' = IF r.published
                                  THEN PersistArtifact(cred, writeOk, artifact)
                                  ELSE artifact
                   /\ profile' = IF r.ok THEN assumedProfileName ELSE profile
    /\ UNCHANGED <<phase, storeVars, currentStep, authDriverName, selectedRole,
                   mfaCode, modelVars, resultVars>>

\* a faulty last step that resolves the account id by writing it into the
\* credentials of the store
ProcRegistryLoginWritesStore(i) ==
    /\ TaskAt(i, "processAuthentication", "registryLogin")
    /\ Room
    /\ tasks' = [tasks EXCEPT ![i] = Returned(@, <<>>, DoneMsg)]
    /\ sessionResult' = [User |-> profile, ECRAuth |-> FALSE]
    /\ msgs' = Send(DoneMsg)
    /\ credentials' = [n \in DOMAIN credentials |->
                         [credentials[n] EXCEPT !.AccountID = <<"9">>]]
    /\ UNCHANGED <<phase, roleArnToProfile, attemptECRLogin, credentialReader,
                   loaderVars, call, flowVars, modelVars, err, success, step,
                   exitMessage, publishVars>>

\* processAuthentication: the result's user, LoginToECR and doneMsg(true);
\* a panic inside LoginToECR ends the process
ProcRegistryLogin(i) ==
    /\ TaskAt(i, "processAuthentication", "registryLogin")
    /\ \E pwOk \in BOOLEAN, dockerOk \in BOOLEAN :
          LET r == LoginToECR(attemptECRLogin, credentials, env.AWS_PROFILE,
                              pwOk, dockerOk)
          IN  IF r.result = "panic"
              THEN /\ tasks' = [tasks EXCEPT ![i] =
                         [@ EXCEPT !.pc = "panicked", !.calls = @ \o r.calls]]
                   /\ sessionResult' = [sessionResult EXCEPT !.User = profile]
                   /\ phase' = "crashed"
                   /\ msgs' = EmptyBag
              ELSE /\ Room
                   /\ tasks' = [tasks EXCEPT ![i] = Returned(@, r.calls, DoneMsg)]
                   /\ sessionResult' = [User |-> profile,
                                        ECRAuth |-> (r.result = "nil")]
                   /\ phase' = phase
                   /\ msgs' = Send(DoneMsg)
    /\ UNCHANGED <<storeVars, flowVars, modelVars, err, success, step,
                   exitMessage, publishVars>>

Next ==
    \/ ProgramInit
    \/ KeyPress
    \/ DeliverStepComplete
    \/ DeliverError
    \/ DeliverDone
    \/ DeliverQuit
    \/ DeliverTeaQuit
    \/ RunDriverCompleteCmd
    \/ RunClearStepTick
    \/ \E i \in 1..MaxTasks : TryAutoMFA(i)
    \/ \E i \in 1..MaxTasks : ProcSessionToken(i)
    \/ \E i \in 1..MaxTasks : ProcAssumeRole(i)
    \/ \E i \in 1..MaxTasks : ProcRegistryLogin(i)

Spec == Init /\ [][Next]_vars

----------------------------------------------------------------------------
(* The credential reader on its own: one load of a credentials text read   *)
(* line by line, then one query of the loaded store                        *)

\* the process before ui.Start: no UIManager yet
BeforeStart ==
    /\ phase = "loading"
    /\ attemptECRLogin = FALSE
    /\ authDriverName = AuthDriverUnknown
    /\ UIManagerZero

\* NewAWSService has created the reader and LoadCredentialsFile has opened
\* the file; or an AWSService{} that was built without a reader
LoadInit ==
    /\ BeforeStart
    /\ credentials = EmptyMap
    /\ roleArnToProfile = EmptyMap
    /\ credentialReader \in {"nil", "reader"}
    /\ loadPc = IF credentialReader = "nil" THEN "returned" ELSE "scanning"
    /\ LoaderLocalsGone
    /\ NoText
    /\ call = NoCall

flowState ==
    <<phase, attemptECRLogin, flowVars, modelVars, resultVars, publishVars,
      msgs, tasks>>

\* one iteration of the scanner loop
ScanLine(raw) ==
    LET line == TrimSpace(raw)
        saved == SaveProfile(credentials, roleArnToProfile, currentProfile,
                             currentCredential)
    IN  /\ loadPc = "scanning"
        /\ IF IsSkipped(line)
           THEN UNCHANGED <<credentials, roleArnToProfile, currentProfile,
                            currentCredential, headers>>
           ELSE IF IsHeader(line)
                THEN /\ headers < MaxSections
                     /\ headers' = headers + 1
                     /\ credentials' = saved.credentials
                     /\ roleArnToProfile' = saved.roleArnToProfile
                     /\ currentProfile' = Str(Trim(line, {"[", "]"}))
                     /\ currentCredential' =
                           [ZeroCredential EXCEPT !.ProfileName = currentProfile']
                ELSE /\ currentCredential' =
                           ParseKeyValue(currentProfile, currentCredential, line)
                     /\ UNCHANGED <<credentials, roleArnToProfile,
                                     currentProfile, headers>>
        /\ UNCHANGED <<flowState, credentialReader, loadPc, call>>

ReadLine ==
    /\ \E raw \in Lines : ScanLine(raw)
    /\ UNCHANGED <<text, lineNo>>

\* a faulty end of file that returns without saving the section being built
EndOfFileNoFlush ==
    /\ loadPc = "scanning"
    /\ loadPc' = "returned"
    /\ currentProfile' = ""
    /\ currentCredential' = ZeroCredential
    /\ headers' = 0
    /\ UNCHANGED <<flowState, credentials, roleArnToProfile, credentialReader,
                    call>>

\* the scanner is at the end of the file: the last section is saved and
\* LoadCredentialsFile returns nil
EndOfFile ==
    LET saved == SaveProfile(credentials, roleArnToProfile, currentProfile,
                             currentCredential)
    IN  /\ loadPc = "scanning"
        /\ credentials' = saved.credentials
        /\ roleArnToProfile' = saved.roleArnToProfile
        /\ loadPc' = "returned"
        /\ currentProfile' = ""
        /\ currentCredential' = ZeroCredential
        /\ headers' = 0
        /\ UNCHANGED <<flowState, credentialReader, call>>

\* the end of a file whose content is not followed
EndOfInput ==
    /\ EndOfFile
    /\ UNCHANGED <<text, lineNo>>

\* the arguments the queries are called with: the names and role ids of the
\* texts, a name and a role id no text holds, and the empty role id
RoleC == <<"a", ":", "w", ":", "i", ":", ":", "3", ":", "r">>
ProfileArgs == ProfileNames \cup {"stg"}
RoleArgs == {RoleA, RoleB, RoleC, EmptyStr}

Returns(c) ==
    /\ loadPc = "returned"
    /\ call.fn = "none"
    /\ call' = [c EXCEPT !.returned = TRUE]
    /\ UNCHANGED <<flowState, credentials, roleArnToProfile, credentialReader,
                    loaderVars>>

CallGetValidProfiles ==
    /\ credentialReader = "reader"
    /\ \E order \in Perms(DOMAIN credentials) :
          Returns([NoCall EXCEPT !.fn = "GetValidProfiles",
                                 !.names = ValidProfilesIn(credentials, order)])

CallGetAssumableRoles ==
    /\ credentialReader = "reader"
    /\ \E p \in ProfileArgs :
          \E roles \in GetAssumableRoles(credentials, p) :
             Returns([NoCall EXCEPT !.fn = "GetAssumableRoles",
                                    !.profile = p, !.roles = roles])

CallGetProfileByRoleArn ==
    /\ credentialReader = "reader"
    /\ \E r \in RoleArgs :
          Returns([NoCall EXCEPT
                     !.fn = "GetProfileByRoleArn", !.text = r,
                     !.name = GetProfileByRoleArn(roleArnToProfile, r)])

CallServiceGetAssumableRoles ==
    \E p \in ProfileArgs :
       \E roles \in ServiceGetAssumableRoles(credentialReader, credentials, p) :
          Returns([NoCall EXCEPT !.fn = "AWSService.GetAssumableRoles",
                                 !.profile = p, !.roles = roles])

CallGetAssumedProfileName ==
    \E r \in RoleArgs :
       Returns([NoCall EXCEPT
                  !.fn = "AWSService.GetAssumedProfileName", !.text = r,
                  !.name = GetAssumedProfileName(credentialReader,
                                                 roleArnToProfile, r)])

LoadNext ==
    \/ ReadLine
    \/ EndOfInput
    \/ CallGetValidProfiles
    \/ CallGetAssumableRoles
    \/ CallGetProfileByRoleArn
    \/ CallServiceGetAssumableRoles
    \/ CallGetAssumedProfileName

LoadSpec == LoadInit /\ [][LoadNext]_vars

----------------------------------------------------------------------------
(* The credential reader on a known text: LoadCredentialsFile reads the    *)
(* lines of one credentials file from the first to the last, then          *)
(* GetCredential is called once                                            *)

\* the lines the texts are made of: headers of two names and a header without
\* a name, one line for every known key, a second access key, a line with an
\* empty value, a line with an unknown key, a line without '=', a blank line
\* and a comment
TextNames == {"default", "int"}
TextLines ==
    {LineHeader("default"), LineHeader("int"), <<"[", "]">>,
     LineKeyValue("aws_access_key_id", <<"AK">>),
     LineKeyValue("aws_access_key_id", <<"AK2">>),
     LineKeyValue("aws_secret_access_key", <<"SK">>),
     LineKeyValue("account_id", <<"1">>),
     LineKeyValue("aws_account_id", <<"2">>),
     LineKeyValue("mfa_serial", <<"mfa">>),
     LineKeyValue("assumable_role_id", RoleA),
     LineKeyValue("vault_key", <<"vk">>),
     LineKeyValue("mfa_serial", <<>>),
     LineKeyValue("region", <<"eu">>),
     <<"region">>, <<" ">>, <<"#", " ", "note">>}

\* the number of section headers among the lines of a text
NumHeaders(t) == Cardinality({i \in 1..Len(t) : IsHeader(TrimSpace(t[i]))})

\* the file has been opened and the scanner created
TextInit ==
    /\ BeforeStart
    /\ credentials = EmptyMap
    /\ roleArnToProfile = EmptyMap
    /\ credentialReader = "reader"
    /\ loadPc = "scanning"
    /\ LoaderLocalsGone
    /\ lineNo = 0
    /\ \E n \in 0..MaxLines :
          \E t \in [1..n -> TextLines] :
             /\ NumHeaders(t) <= MaxSections
             /\ text = t
    /\ call = NoCall

\* scanner.Scan() returns the next line of the file
ScanText ==
    /\ lineNo < Len(text)
    /\ ScanLine(text[lineNo + 1])
    /\ lineNo' = lineNo + 1
    /\ UNCHANGED text

\* scanner.Scan() returns false after the last line
EndOfText ==
    /\ lineNo = Len(text)
    /\ EndOfFile
    /\ UNCHANGED <<text, lineNo>>

CallGetCredential ==
    /\ credentialReader = "reader"
    /\ \E p \in ProfileArgs :
          LET got == GetCredential(credentials, p)
          IN  Returns([NoCall EXCEPT !.fn = "GetCredential", !.profile = p,
                                     !.credential = got.credential,
                                     !.ok = got.exists])

\* a test builds a second, cleared reader and loads the same content into
\* it with loadCredentialsFromContent
CallLoadCredentialsFromContent ==
    /\ credentialReader = "reader"
    /\ lineNo = Len(text)
    /\ LET got == LoadCredentialsFromContent(EmptyMap, EmptyMap, text)
       IN  Returns([NoCall EXCEPT !.fn = "loadCredentialsFromContent",
                                  !.store = got.credentials,
                                  !.index = got.roleArnToProfile])

TextNext ==
    \/ ScanText
    \/ EndOfText
    \/ CallGetCredential
    \/ CallLoadCredentialsFromContent

TextSpec == TextInit /\ [][TextNext]_vars

----------------------------------------------------------------------------
(* ValidateMFACode on its own: one call with a string of the bounded set   *)

CodeChars == {"0", "9", "a", " ", "-", "e-acute"}

ValidateInit ==
    /\ BeforeStart
    /\ credentials = EmptyMap
    /\ roleArnToProfile = EmptyMap
    /\ credentialReader = "nil"
    /\ loadPc = "returned"
    /\ LoaderLocalsGone
    /\ NoText
    /\ \E n \in 0..MaxCodeLen :
          \E code \in [1..n -> CodeChars] :
             call = [NoCall EXCEPT !.fn = "ValidateMFACode", !.text = code]

CallValidateMFACode ==
    /\ call.fn = "ValidateMFACode"
    /\ ~call.returned
    /\ call' = [call EXCEPT !.ok = ValidateMFACode(call.text),
                            !.returned = TRUE]
    /\ UNCHANGED <<flowState, credentials, roleArnToProfile, credentialReader,
                    loaderVars>>

ValidateSpec == ValidateInit /\ [][CallValidateMFACode]_vars

----------------------------------------------------------------------------
(* The auth drivers on their own: one call of one function of the package  *)
(* or of AWSService.GetMFACode, with an argument of the bounded sets        *)

\* the pieces driver names are written with
NamePieces ==
    {" ", "\t", "manual", "Manual", "MANUAL", "1password", "1Password",
     "unknown", "x"}

DriverFns ==
    {"ManualDriver.GetToken", "ManualDriver.YieldsMFACode",
     "ManualDriver.GetMFACode", "ManualDriver.IsInstalled"}

DriverInit ==
    /\ BeforeStart
    /\ credentials = EmptyMap
    /\ roleArnToProfile = EmptyMap
    /\ credentialReader = "nil"
    /\ loadPc = "returned"
    /\ LoaderLocalsGone
    /\ NoText
    /\ \/ \E fn \in {"ParseAuthDriver", "GetAuthDriverFromEnv"} :
             \E n \in 0..MaxPieces :
                \E s \in [1..n -> NamePieces] :
                   call = [NoCall EXCEPT !.fn = fn, !.text = s]
       \/ \E d \in {AuthDriverManual, AuthDriver1Password} :
             call = [NoCall EXCEPT !.fn = "AuthDriverName.String", !.driver = d]
       \/ \E fn \in DriverFns : call = [NoCall EXCEPT !.fn = fn]
       \/ \E d \in {"nil", AuthDriverManual, AuthDriver1Password} :
             call = [NoCall EXCEPT !.fn = "AWSService.GetMFACode", !.driver = d]

\* the call returns: only `call` changes
DriverReturns(c) ==
    /\ ~call.returned
    /\ call' = [c EXCEPT !.returned = TRUE]
    /\ UNCHANGED <<flowState, credentials, roleArnToProfile, credentialReader,
                    loaderVars>>

CallParseAuthDriver ==
    /\ call.fn = "ParseAuthDriver"
    /\ LET r == ParseAuthDriver(call.text)
       IN  DriverReturns([call EXCEPT !.driver = r.driver, !.ok = r.ok,
                                      !.err = r.err])

CallGetAuthDriverFromEnv ==
    /\ call.fn = "GetAuthDriverFromEnv"
    /\ LET r == GetAuthDriverFromEnv(call.text)
       IN  DriverReturns([call EXCEPT !.driver = r.driver, !.ok = r.ok,
                                      !.err = r.err])

\* d.String() and ParseAuthDriver of the result
CallStringThenParse ==
    /\ call.fn = "AuthDriverName.String"
    /\ LET s == AuthDriverString(call.driver)
           r == ParseAuthDriver(s)
       IN  DriverReturns([call EXCEPT !.text = s, !.name = r.driver,
                                      !.ok = r.ok, !.err = r.err])

CallManualDriver ==
    /\ call.fn \in DriverFns
    /\ CASE call.fn = "ManualDriver.GetToken" ->
               DriverReturns([call EXCEPT !.text = ManualDriver.GetToken.code,
                                          !.ok = ManualDriver.GetToken.ok,
                                          !.err = ManualDriver.GetToken.err])
         [] call.fn = "ManualDriver.GetMFACode" ->
               DriverReturns([call EXCEPT !.text = ManualDriver.GetMFACode.code,
                                          !.ok = ManualDriver.GetMFACode.ok,
                                          !.err = ManualDriver.GetMFACode.err])
         [] call.fn = "ManualDriver.YieldsMFACode" ->
               DriverReturns([call EXCEPT !.ok = ManualDriver.YieldsMFACode])
         [] call.fn = "ManualDriver.IsInstalled" ->
               DriverReturns([call EXCEPT !.ok = ManualDriver.IsInstalled])

CallServiceGetMFACode ==
    /\ call.fn = "AWSService.GetMFACode"
    /\ \E otp \in {"ok", "fail", "empty"} :
          LET r == ServiceGetMFACode(call.driver, otp)
          IN  DriverReturns([call EXCEPT !.text = r.code, !.ok = r.ok,
                                         !.err = r.err, !.calls = r.calls])

DriverNext ==
    \/ CallParseAuthDriver
    \/ CallGetAuthDriverFromEnv
    \/ CallStringThenParse
    \/ CallManualDriver
    \/ CallServiceGetMFACode

DriverSpec == DriverInit /\ [][DriverNext]_vars

----------------------------------------------------------------------------
(* The program from the start of main: the driver override is read, the    *)
(* service and the UIManager are built, then the flow runs                  *)

\* the values of AWS_LOGIN_AUTH_DRIVER the program is started with: not
\* set, two spellings of valid names, and a name of no driver
Overrides == {<<>>, <<"manual">>, <<" ", "1Password">>, <<"x">>}

\* the process has started and main has not run yet
MainInit ==
    /\ BeforeStart
    /\ credentials = EmptyMap
    /\ roleArnToProfile = EmptyMap
    /\ credentialReader = "nil"
    /\ loadPc = "returned"
    /\ LoaderLocalsGone
    /\ NoText
    /\ \E driverStr \in Overrides :
          call = [NoCall EXCEPT !.fn = "main", !.text = driverStr]

\* main up to tea.NewProgram: the override is parsed and a parse error is
\* dropped, NewAWSService loads the store, ui.Start builds the UIManager
Main ==
    /\ phase = "loading"
    /\ call.fn = "main"
    /\ LET driverStr == call.text
           parsed == ParseAuthDriver(driverStr)
       IN  authDriverName' = IF driverStr # <<>> /\ parsed.ok
                             THEN parsed.driver
                             ELSE AuthDriverUnknown
    /\ \E c \in Configs :
          /\ credentials' = c.store
          /\ attemptECRLogin' = c.ecr
          /\ roleArnToProfile' = RoleIndexOf(c.store)
    /\ credentialReader' = "reader"
    /\ phase' = "constructed"
    /\ UNCHANGED <<currentStep, profile, selectedRole, mfaCode, modelVars,
                    resultVars, publishVars, msgs, tasks, loaderVars, call>>

MainNext ==
    \/ Main
    \/ Next

MainSpec == MainInit /\ [][MainNext]_vars

----------------------------------------------------------------------------
(* A caller of AWSService.GetCredentials that writes through the pointer *)

\* the stores the service is built over
PointerStores == {StoreNoValid, StoreSingle, StoreRole, StoreTwo}

\* the string fields of StaticCredential and the values a caller assigns
StringFields == {"AccessKey", "AccessSecret", "MfaSerial", "VaultKey"}
WrittenStrings == {"", "new"}

\* the service has been built; its reader holds a loaded store, or it is an
\* AWSService{} without a reader
PointerInit ==
    /\ BeforeStart
    /\ credentialReader \in {"nil", "reader"}
    /\ IF credentialReader = "nil"
       THEN credentials = EmptyMap
       ELSE credentials \in PointerStores
    /\ roleArnToProfile = RoleIndexOf(credentials)
    /\ loadPc = "returned"
    /\ LoaderLocalsGone
    /\ NoText
    /\ call = NoCall

\* creds, err := s.GetCredentials(p)
CallGetCredentials ==
    /\ call.fn = "none"
    /\ \E p \in DOMAIN credentials \cup {"stg"} :
          LET r == ServiceGetCredentials(credentialReader, credentials, p)
          IN  call' = [NoCall EXCEPT !.fn = "AWSService.GetCredentials",
                                     !.profile = p,
                                     !.points = r.points,
                                     !.pointee = r.pointee,
                                     !.err = r.err,
                                     !.ok = (r.err = NoErr)]
    /\ UNCHANGED <<flowState, credentials, roleArnToProfile, credentialReader,
                    loaderVars>>

\* what an assignment through the pointer does: the variable the pointer
\* refers to takes the value, and that variable is the map's entry only
\* when the pointer refers to the store
AssignThrough(c) ==
    /\ call.fn = "AWSService.GetCredentials"
    /\ call.points # "nil"
    /\ c # call.pointee
    /\ call' = [call EXCEPT !.fn = "assigned", !.pointee = c]
    /\ credentials' = IF call.points = "store"
                      THEN [credentials EXCEPT ![call.profile] = c]
                      ELSE credentials
    /\ UNCHANGED <<flowState, roleArnToProfile, credentialReader, loaderVars>>

\* creds.<field> = <value>, for a value the field does not hold
WriteThroughPointer ==
    \/ \E f \in StringFields, v \in WrittenStrings :
          AssignThrough([call.pointee EXCEPT ![f] = v])
    \/ \E v \in {EmptyStr, <<"9">>} :
          AssignThrough([call.pointee EXCEPT !.AccountID = v])
    \/ \E v \in {EmptyStr, RoleB} :
          AssignThrough([call.pointee EXCEPT !.AssumableRoleID = v])

\* a later GetCredential of the same profile
CallGetCredentialAgain ==
    /\ call.fn = "assigned"
    /\ credentialReader = "reader"
    /\ LET got == GetCredential(credentials, call.profile)
       IN  call' = [call EXCEPT !.fn = "GetCredential",
                                !.credential = got.credential,
                                !.ok = got.exists,
                                !.returned = TRUE]
    /\ UNCHANGED <<flowState, credentials, roleArnToProfile, credentialReader,
                    loaderVars>>

PointerNext ==
    \/ CallGetCredentials
    \/ WriteThroughPointer
    \/ CallGetCredentialAgain

PointerSpec == PointerInit /\ [][PointerNext]_vars

----------------------------------------------------------------------------
(* The flow with a user who answers every prompt, under fair scheduling *)

\* the list the current step shows still waits for its choice: nothing was
\* confirmed in it and no completion of the step is on its way
AwaitsChoice ==
    /\ \A m \in BagToSet(msgs) : m.step # currentStep
    /\ \/ currentStep = StepProfileSelection /\ ~profileModel.nil
                                             /\ ~profileModel.selected
       \/ currentStep = StepDriverSelection /\ ~driverModel.nil
                                            /\ ~driverModel.selected
       \/ currentStep = StepRoleSelection /\ ~roleModel.nil
                                          /\ ~roleModel.selected

\* the user moves the highlight of the list shown to the next entry
UserMovesDown ==
    /\ AwaitsChoice
    /\ KeyStep(KeyDown)

\* the user confirms the highlighted entry of the list shown
UserConfirms ==
    /\ AwaitsChoice
    /\ KeyStep(KeyEnter)

\* asked for a code, the user pastes a valid one
UserTypesCode ==
    /\ currentStep = StepMFAInput
    /\ authDriverName = AuthDriverManual
    /\ mfaInput = EmptyStr
    /\ KeyStep(KeyCode)

\* and submits it
UserSubmitsCode ==
    /\ currentStep = StepMFAInput
    /\ authDriverName = AuthDriverManual
    /\ ValidateMFACode(mfaInput)
    /\ mfaCode = EmptyStr
    /\ KeyStep(KeyEnter)

\* the tick of an invalid code is never queued by this user, so
\* RunClearStepTick has no step here
LiveNext ==
    \/ ProgramInit
    \/ UserMovesDown
    \/ UserConfirms
    \/ UserTypesCode
    \/ UserSubmitsCode
    \/ DeliverStepComplete
    \/ DeliverError
    \/ DeliverDone
    \/ DeliverQuit
    \/ DeliverTeaQuit
    \/ RunDriverCompleteCmd
    \/ \E i \in 1..MaxTasks : TryAutoMFA(i)
    \/ \E i \in 1..MaxTasks : ProcSessionToken(i)
    \/ \E i \in 1..MaxTasks : ProcAssumeRole(i)
    \/ \E i \in 1..MaxTasks : ProcRegistryLogin(i)

\* tea.Program.Run starts the loop and hands every message of its channel
\* to Update; a command runs in a goroutine of its own and its external
\* calls return; the user answers, and may move the highlight before
Fairness ==
    /\ WF_vars(ProgramInit)
    /\ WF_vars(UserConfirms)
    /\ WF_vars(UserTypesCode)
    /\ WF_vars(UserSubmitsCode)
    /\ WF_vars(DeliverStepComplete)
    /\ WF_vars(DeliverError)
    /\ WF_vars(DeliverDone)
    /\ WF_vars(DeliverQuit)
    /\ WF_vars(DeliverTeaQuit)
    /\ WF_vars(RunDriverCompleteCmd)
    /\ WF_vars(\E i \in 1..MaxTasks : TryAutoMFA(i))
    /\ WF_vars(\E i \in 1..MaxTasks : ProcSessionToken(i))
    /\ WF_vars(\E i \in 1..MaxTasks : ProcAssumeRole(i))
    /\ WF_vars(\E i \in 1..MaxTasks : ProcRegistryLogin(i))

LiveSpec == Init /\ [][LiveNext]_vars /\ Fairness

----------------------------------------------------------------------------
(* Properties of the flow *)

\* the place of an external exchange in the Processing pipeline
CallRank(name) ==
    CASE name = "get-session-token" -> 1
      [] name = "assume-role" -> 2
      [] name = "ecr-get-login-password" -> 3
      [] name = "docker-login" -> 4
      [] OTHER -> 0

\* the exchanges of one run are in pipeline order, start with the
\* session-token exchange, and nothing follows a failed session-token or
\* assume-role exchange
PipelineOrdered(calls) ==
    /\ calls # <<>> => calls[1].call = "get-session-token"
    /\ \A j \in 1..(Len(calls) - 1) :
          /\ CallRank(calls[j].call) < CallRank(calls[j + 1].call)
          /\ CallRank(calls[j].call) <= 2 => calls[j].ok

AssumeRoleIssued(calls) == \E j \in 1..Len(calls) : calls[j].call = "assume-role"

\* C1: in every run of Processing the exchanges happen in the order
\* session-token, assume-role, registry login; the assume-role exchange is
\* issued exactly when a role is selected at that point of the run; after a
\* failed session-token exchange nothing more is issued, and after a failed
\* assume-role exchange no registry login is issued.
C1_PipelineOrder ==
    [][\A i \in DOMAIN tasks' :
          tasks'[i].kind = "processAuthentication" =>
             /\ PipelineOrdered(tasks'[i].calls)
             /\ i \in DOMAIN tasks =>
                   /\ (/\ AssumeRoleIssued(tasks'[i].calls)
                       /\ ~AssumeRoleIssued(tasks[i].calls))
                         => selectedRole # EmptyStr
                   /\ (/\ tasks[i].pc = "afterSessionToken"
                       /\ tasks'[i].pc = "registryLogin"
                       /\ tasks'[i].calls = tasks[i].calls)
                         => selectedRole = EmptyStr]_vars

\* C1 is exercised: one run stopped at its failed session-token exchange and
\* another went through all four exchanges
C1_Witness ==
    \E i, j \in DOMAIN tasks :
        /\ tasks[i].pc = "returned"
        /\ tasks[i].calls = <<Call("get-session-token", FALSE)>>
        /\ Len(tasks[j].calls) = 4

\* the commands that have started and not yet returned
Outstanding == {i \in DOMAIN tasks : tasks[i].pc \notin {"returned", "panicked"}}

\* C2: at most one external task (vault retrieval or Processing pipeline)
\* is outstanding at any time.
C2_AtMostOneOutstanding == Cardinality(Outstanding) <= 1

\* Done and Quit share the last place of the step order
FlowRank(s) == IF s = StepQuit THEN StepOrd(StepDone) ELSE StepOrd(s)

NonTerminal == FlowStep \ {StepDone, StepQuit}

\* C3: currentStep never moves to an earlier step of the order
\* ProfileSelection, DriverSelection, RoleSelection, MFAInput, Processing,
\* Done/Quit, and on the way to a non-terminal step only RoleSelection is
\* jumped over.
C3_StepMonotone ==
    [][/\ FlowRank(currentStep') >= FlowRank(currentStep)
       /\ (/\ currentStep' \in NonTerminal
           /\ FlowRank(currentStep') > FlowRank(currentStep) + 1)
             => (/\ currentStep = StepDriverSelection
                 /\ currentStep' = StepMFAInput)]_vars

\* C4: Done and Quit are terminal: from Done the step changes only to Quit,
\* from Quit it does not change.
C4_TerminalStays ==
    [][/\ currentStep = StepDone => currentStep' \in {StepDone, StepQuit}
       /\ currentStep = StepQuit => currentStep' = StepQuit]_vars

\* C5: once Quit is reached no command is started, a command still running
\* finishes at most the one exchange it had in flight, and the recorded
\* outcome (success, error, profile, registry-login flag) does not change.
C5_NoWorkAfterQuit ==
    [][currentStep = StepQuit =>
          /\ Len(tasks') = Len(tasks)
          /\ \A i \in DOMAIN tasks :
                Len(tasks'[i].calls) <= Len(tasks[i].calls) + 1
          /\ success' = success
          /\ err' = err
          /\ profile' = profile
          /\ sessionResult'.ECRAuth = sessionResult.ECRAuth]_vars

\* C6: ctrl+c in a non-terminal step only produces quitMsg, and the key is
\* not handed to the step's handler: every field of the orchestrator and
\* of its list models stays as it is; quitMsg produces tea.QuitMsg and
\* leaves the step alone; tea.QuitMsg sets currentStep to Quit.
C6_CancelLeadsToQuit ==
    [][/\ (KeyStep(KeyCtrlC) /\ currentStep \in NonTerminal)
             => /\ msgs' = msgs (+) SetToBag({QuitMsg})
                /\ UNCHANGED <<flowVars, modelVars, resultVars, tasks,
                               publishVars>>
       /\ DeliverQuit
             => /\ msgs' = (msgs (-) SetToBag({QuitMsg})) (+) SetToBag({TeaQuitMsg})
                /\ UNCHANGED <<flowVars, modelVars>>
       /\ DeliverTeaQuit => currentStep' = StepQuit]_vars

\* C6 is exercised: a quitMsg is pending in a non-terminal step of a flow
\* that has started no command, so only ctrl+c can have produced it
C6_Witness ==
    /\ BagIn(QuitMsg, msgs)
    /\ currentStep = StepRoleSelection
    /\ tasks = <<>>

\* both exchanges of a run, as far as they were issued, succeeded
ExchangesSucceeded(calls) ==
    /\ calls # <<>>
    /\ \A j \in 1..Len(calls) : CallRank(calls[j].call) <= 2 => calls[j].ok

\* C7: a run of Processing whose session-token exchange and, if issued,
\* assume-role exchange succeeded ends with doneMsg(true), whatever the
\* registry login does.
C7_RegistryLoginNonFatal ==
    \A i \in DOMAIN tasks :
        (/\ tasks[i].kind = "processAuthentication"
         /\ tasks[i].pc \in {"returned", "panicked"}
         /\ ExchangesSucceeded(tasks[i].calls))
           => tasks[i].ret = DoneMsg

\* C8: the errorMsg of a failed MFA retrieval, session-token or assume-role
\* exchange moves the flow to Done with exactly that error stored and the
\* success flag false.
C8_FailureIsTerminal ==
    [][\A m \in BagToSet(msgs) :
          ErrorStep(m) =>
             /\ currentStep' = StepDone
             /\ err' = m.err
             /\ success' = FALSE]_vars

\* some run has rebound the profile to the owner of an assumed role
Rebound ==
    \E i \in DOMAIN tasks :
        \E j \in 1..Len(tasks[i].calls) :
            tasks[i].calls[j] = Call("assume-role", TRUE)

\* C9: with exactly one valid profile the flow holds that profile from the
\* start of the program on, until an assumed role rebinds it.
C9_SingleProfileHeld ==
    (/\ phase # "constructed"
     /\ Cardinality(GetValidProfiles(credentials)) = 1
     /\ ~Rebound)
       => profile \in GetValidProfiles(credentials)

\* C10: when the driver step completes and RoleSelection is entered, a
\* profile without assumable roles moves the flow to MFAInput in the same
\* transition with the selected role empty; otherwise the flow waits in
\* RoleSelection.
C10_RoleSkip ==
    [][\A m \in BagToSet(msgs) :
          (m.step = StepDriverSelection /\ StepCompleteStep(m)) =>
             IF GetAssumableRoles(credentials, profile) = {<<>>}
             THEN currentStep' = StepMFAInput /\ selectedRole' = EmptyStr
             ELSE currentStep' = StepRoleSelection]_vars

\* C11: in MFAInput with the Manual driver, Enter on a value the rule
\* rejects clears the field, sets the error text, stays in MFAInput and
\* starts no command; Enter on a value the rule accepts stores it as the MFA
\* code and completes the step, and the completion moves the flow to
\* Processing with that code unchanged and starts the pipeline.
C11_ManualSubmit ==
    [][/\ (/\ KeyStep(KeyEnter)
           /\ currentStep = StepMFAInput
           /\ authDriverName = AuthDriverManual)
             => /\ currentStep' = StepMFAInput
                /\ tasks' = tasks
                /\ IF ValidateMFACode(mfaInput)
                   THEN /\ mfaCode' = mfaInput
                        /\ msgs' = msgs (+)
                              SetToBag({StepCompleteMsg(StepMFAInput, NoData)})
                   ELSE /\ mfaInput' = EmptyStr
                        /\ step' = ErrInvalidMFA
                        /\ mfaCode' = mfaCode
                        /\ msgs' = msgs (+) SetToBag({ClearStepTick})
       /\ \A m \in BagToSet(msgs) :
             (m.step = StepMFAInput /\ StepCompleteStep(m))
                => /\ currentStep' = StepProcessing
                   /\ mfaCode' = mfaCode
                   /\ tasks' = Append(tasks, NewTask("processAuthentication"))]_vars

\* C11 is exercised: a rejected value left its error text, and the accepted
\* code submitted after it has taken the flow to Processing
C11_Witness ==
    /\ authDriverName = AuthDriverManual
    /\ step = ErrInvalidMFA
    /\ currentStep = StepProcessing
    /\ mfaCode = Runes(KeyCode)
    /\ Len(tasks) = 1

\* a vault fetch has returned an error
FetchFailed(ts) ==
    \E i \in DOMAIN ts :
        /\ ts[i].kind = "tryAutoMFA"
        /\ ts[i].pc = "returned"
        /\ ts[i].ret.type = "errorMsg"

SessionTokenIssued(ts) ==
    \E i \in DOMAIN ts :
        \E j \in 1..Len(ts[i].calls) : ts[i].calls[j].call = "get-session-token"

\* C12: with the vault driver MFAInput starts the fetch on entry without
\* user input; a successful fetch stores the returned code and completes
\* the step; a failed fetch returns its error, and once a fetch has failed
\* no session-token exchange is issued in the run; keys other than ctrl+c
\* change nothing while the flow is in MFAInput with that driver.
C12_VaultFetch ==
    [][/\ \A m \in BagToSet(msgs) :
             (/\ StepCompleteStep(m)
              /\ currentStep' = StepMFAInput
              /\ authDriverName' = AuthDriver1Password)
                => tasks' = Append(tasks, NewTask("tryAutoMFA"))
       /\ \A i \in DOMAIN tasks :
             (TryAutoMFA(i) /\ authDriverName = AuthDriver1Password)
                => /\ tasks'[i].ret.type = "stepCompleteMsg"
                         => (mfaCode' = VaultCode /\ tasks'[i].ret.step = StepMFAInput)
                   /\ tasks'[i].ret.type = "errorMsg"
                         => (mfaCode' = mfaCode
                             /\ tasks'[i].ret.err \in {ErrNotInstalled, ErrVault, ErrVaultEmpty})
       /\ FetchFailed(tasks') => ~SessionTokenIssued(tasks')
       /\ \A key \in Keys \ {KeyCtrlC} :
             (/\ KeyStep(key)
              /\ currentStep = StepMFAInput
              /\ authDriverName = AuthDriver1Password)
                => UNCHANGED <<flowVars, modelVars, resultVars, tasks, msgs>>]_vars

----------------------------------------------------------------------------
(* Properties of ValidateMFACode and of the credential reader *)

\* C13: ValidateMFACode(s) is true exactly when s has six characters and
\* each of them is one of the decimal digits '0'..'9'; in particular it is
\* false for the empty string, for strings of five or seven characters and
\* for six-character strings holding a letter, a space or '-'.
C13_ValidateMFACode ==
    (call.fn = "ValidateMFACode" /\ call.returned)
       => /\ call.ok <=> (/\ Len(call.text) = 6
                           /\ \A i \in 1..Len(call.text) : call.text[i] \in Digits)
          /\ Len(call.text) \in {0, 5, 7} => ~call.ok
          /\ (\E i \in 1..Len(call.text) : call.text[i] \in {"a", " ", "-"})
                => ~call.ok

C13_Witness ==
    /\ call.fn = "ValidateMFACode"
    /\ call.returned
    /\ call.ok
    /\ call.text = <<"0", "9", "9", "0", "0", "9">>

\* the slice holds no element twice
NoRepeat(slice) == \A i, j \in 1..Len(slice) : slice[i] = slice[j] => i = j

C15_EverySectionValid ==
    (call.fn = "GetValidProfiles" /\ call.returned)
       => \A p \in DOMAIN credentials :
             credentials[p].AccessKey # "" => p \in RangeOf(call.names)

\* C16: for every store content and every stored profile p that declares an
\* assumable role id, GetAssumableRoles(p) does not hold p's own role id,
\* also when another profile declares the same role id.
C16_OwnRoleExcluded ==
    (/\ call.fn = "GetAssumableRoles"
     /\ call.returned
     /\ call.profile \in DOMAIN credentials)
       => \/ credentials[call.profile].AssumableRoleID = EmptyStr
          \/ credentials[call.profile].AssumableRoleID \notin RangeOf(call.roles)

\* the stored profiles other than p that declare an assumable role id
OtherOwners(p) ==
    {q \in DOMAIN credentials \ {p} : credentials[q].AssumableRoleID # EmptyStr}

\* the slice holds one element per profile of owners: that profile's role id
HoldsRolesOf(slice, owners) ==
    /\ Len(slice) = Cardinality(owners)
    /\ \A r \in RangeOf(slice) \cup {credentials[q].AssumableRoleID : q \in owners} :
          Cardinality({i \in 1..Len(slice) : slice[i] = r}) =
             Cardinality({q \in owners : credentials[q].AssumableRoleID = r})

\* C17: GetAssumableRoles(p) holds exactly the non-empty role ids of the
\* stored profiles other than p; for a profile that owns no role and for a
\* name that is not stored these are the role ids of all profiles; the
\* AWSService wrapper returns the same, and an empty list when the service
\* has no credential reader.
C17_AssumableRoles ==
    /\ (call.fn = "GetAssumableRoles" /\ call.returned)
          => HoldsRolesOf(call.roles, OtherOwners(call.profile))
    /\ (call.fn = "AWSService.GetAssumableRoles" /\ call.returned)
          => IF credentialReader = "nil"
             THEN call.roles = <<>>
             ELSE HoldsRolesOf(call.roles, OtherOwners(call.profile))

C17_Witness ==
    /\ call.fn = "GetAssumableRoles"
    /\ call.returned
    /\ call.profile = "stg"
    /\ DOMAIN credentials = {"default", "prd"}
    /\ call.roles = <<RoleB, RoleA>>

\* the name a reverse lookup of role may return: a stored profile that
\* declares role, or the empty string when role is empty or undeclared
ExactLookup(role, name) ==
    IF role # EmptyStr
       /\ \E p \in DOMAIN credentials : credentials[p].AssumableRoleID = role
    THEN /\ name \in DOMAIN credentials
         /\ credentials[name].AssumableRoleID = role
    ELSE name = ""

\* C18: GetProfileByRoleArn returns for a role id declared by a stored
\* profile the name of a profile that declares it, and the empty string for
\* the empty role id and for a role id no stored profile declares; the
\* reverse index never holds the empty key; GetAssumedProfileName returns
\* the same value, and the empty string when the service has no reader.
C18_ReverseLookup ==
    /\ EmptyStr \notin DOMAIN roleArnToProfile
    /\ (call.fn = "GetProfileByRoleArn" /\ call.returned)
          => ExactLookup(call.text, call.name)
    /\ (call.fn = "AWSService.GetAssumedProfileName" /\ call.returned)
          => IF credentialReader = "nil"
             THEN call.name = ""
             ELSE /\ call.name = GetProfileByRoleArn(roleArnToProfile, call.text)
                  /\ ExactLookup(call.text, call.name)

\* every entry of the reverse index names a stored profile that declares
\* the entry's role id
IndexMatchesStore ==
    \A role \in DOMAIN roleArnToProfile :
       /\ roleArnToProfile[role] \in DOMAIN credentials
       /\ credentials[roleArnToProfile[role]].AssumableRoleID = role

\* C19: after any load, also of a text in which a section name occurs more
\* than once, every entry role -> p of the reverse index has p stored with
\* assumable role id equal to role; so a stored profile whose assumable role
\* id is empty is the value of no entry.
C19_IndexMatchesStore ==
    loadPc = "returned"
       => /\ IndexMatchesStore
          /\ \A role \in DOMAIN roleArnToProfile :
                \A p \in DOMAIN credentials :
                   credentials[p].AssumableRoleID = EmptyStr
                      => roleArnToProfile[role] # p

\* C20: after every load the reverse index is injective: two different role
\* ids never map to the same profile name.
C20_IndexInjective ==
    loadPc = "returned"
       => \A r1, r2 \in DOMAIN roleArnToProfile :
             roleArnToProfile[r1] = roleArnToProfile[r2] => r1 = r2

----------------------------------------------------------------------------
(* Properties of LoadCredentialsFile on a known text *)

\* line i of the text is the header of the section named n
HeaderAt(i, n) == text[i] = LineHeader(n)

\* line i of the text is a header, with or without a name
AnyHeaderAt(i) == \/ \E n \in TextNames : HeaderAt(i, n)
                  \/ text[i] = <<"[", "]">>

\* the lines between the header at line i and the next header or the end
SectionLines(i) ==
    {j \in (i + 1)..Len(text) : \A k \in (i + 1)..j : ~AnyHeaderAt(k)}

\* the lines before the first header
Preamble == {j \in 1..Len(text) : \A k \in 1..j : ~AnyHeaderAt(k)}

\* the non-empty values the texts assign
TextValues ==
    {<<"AK">>, <<"AK2">>, <<"SK">>, <<"1">>, <<"2">>, <<"mfa">>, RoleA, <<"vk">>}

\* line j assigns the non-empty value v to one of the keys
AssignsAt(j, keys, v) == \E key \in keys : text[j] = LineKeyValue(key, v)

\* the value the last assignment of one of the keys among the lines js gives,
\* empty when there is none
Assigned(js, keys) ==
    LET at == {j \in js : \E v \in TextValues : AssignsAt(j, keys, v)}
        last == CHOOSE j \in at : \A k \in at : k <= j
    IN  IF at = {}
        THEN EmptyStr
        ELSE CHOOSE v \in TextValues : AssignsAt(last, keys, v)

\* the credential the lines js of a section named n describe
SectionCredential(n, js) ==
    StaticCredential(n,
        Str(Assigned(js, {"aws_access_key_id"})),
        Str(Assigned(js, {"aws_secret_access_key"})),
        Assigned(js, {"account_id", "aws_account_id"}),
        Str(Assigned(js, {"mfa_serial"})),
        Assigned(js, {"assumable_role_id"}),
        Str(Assigned(js, {"vault_key"})))

\* GetCredential answers from the store: found with the stored credential
\* for a name a header of the text carries, not found with the zero
\* credential for any other name
GetCredentialAnswers ==
    call.fn = "GetCredential" /\ call.returned
       => IF \E i \in 1..Len(text) : HeaderAt(i, call.profile)
          THEN call.ok /\ call.credential = credentials[call.profile]
          ELSE ~call.ok /\ call.credential = ZeroCredential

\* C21 as stated: after the load every section header [name] of the text has
\* a credential stored under name that holds the values of the known keys
\* assigned inside that section, the last section included; GetCredential
\* returns it with found = true, and found = false with a zero credential for
\* a name that was not loaded.
C21_EverySectionStored ==
    loadPc = "returned"
       => /\ \A i \in 1..Len(text) : \A n \in TextNames :
                HeaderAt(i, n)
                   => /\ n \in DOMAIN credentials
                      /\ credentials[n] = SectionCredential(n, SectionLines(i))
          /\ GetCredentialAnswers

\* C21 amended: after the load every section header [name] of the text that
\* is the last header of that name has a credential stored under name that
\* holds the values of the known keys assigned inside that section, the last
\* section included; GetCredential returns it with found = true, and
\* found = false with a zero credential for a name that was not loaded.
C21_LastSectionStored ==
    loadPc = "returned"
       => /\ \A i \in 1..Len(text) : \A n \in TextNames :
                /\ HeaderAt(i, n)
                /\ \A k \in (i + 1)..Len(text) : ~HeaderAt(k, n)
                => /\ n \in DOMAIN credentials
                   /\ credentials[n] = SectionCredential(n, SectionLines(i))
          /\ GetCredentialAnswers

\* C21 is exercised: the last section of the text ends with the text, it
\* assigns a vault key and an account id, and GetCredential found it
C21_Witness ==
    /\ loadPc = "returned"
    /\ text = <<LineHeader("int"), LineKeyValue("vault_key", <<"vk">>),
                LineKeyValue("aws_account_id", <<"2">>)>>
    /\ call.fn = "GetCredential" /\ call.returned
    /\ call.profile = "int" /\ call.ok
    /\ call.credential =
          StaticCredential("int", "", "", <<"2">>, "", EmptyStr, "vk")

\* the known keys of a key = value line
KnownKeys ==
    {"aws_access_key_id", "aws_secret_access_key", "account_id",
     "aws_account_id", "mfa_serial", "assumable_role_id", "vault_key"}

\* the scanner reads line number lineNo + 1 of the text in this step
Reads(line) ==
    /\ loadPc = "scanning"
    /\ lineNo < Len(text)
    /\ lineNo' = lineNo + 1
    /\ text[lineNo + 1] = line

\* the step changes neither the credential being built nor the store
KeepsCredential ==
    /\ currentProfile' = currentProfile
    /\ currentCredential' = currentCredential
    /\ credentials' = credentials
    /\ roleArnToProfile' = roleArnToProfile

\* C22: a key = value line whose value is empty after trimming does not
\* change the credential being built: a field assigned earlier in the same
\* section keeps its earlier value and an unassigned field stays empty.
C22_EmptyValueIgnored ==
    [][\A key \in KnownKeys :
          Reads(LineKeyValue(key, <<>>)) => KeepsCredential]_vars

\* C22 is exercised: the section assigned an MFA serial, the line read last
\* assigns the empty value to mfa_serial, and the serial is still there
C22_Witness ==
    /\ loadPc = "scanning"
    /\ lineNo = 3
    /\ text[2] = LineKeyValue("mfa_serial", <<"mfa">>)
    /\ text[3] = LineKeyValue("mfa_serial", <<>>)
    /\ currentProfile = "int"
    /\ currentCredential.MfaSerial = "mfa"
    /\ currentCredential.AccessKey = ""

\* the lines of the texts that the loader is to skip wherever they stand: a
\* blank line, a comment, a line without '=' and a line with an unknown key
SkippedLines ==
    {<<" ">>, <<"#", " ", "note">>, <<"region">>,
     LineKeyValue("region", <<"eu">>)}

\* the lines of the texts that assign a value to a known key
AssigningLines ==
    {LineKeyValue(key, v) : key \in KnownKeys, v \in TextValues} \cap TextLines

----------------------------------------------------------------------------
(* Properties of the flow, continued *)

\* the error GetMFASerial is to return for profile p over the store, NoErr
\* when it is to return the serial
MFASerialFailure(p) ==
    IF p \notin DOMAIN credentials
    THEN <<"profile not found in credentials", p>>
    ELSE IF credentials[p].MfaSerial = ""
         THEN <<"MFA serial not configured for profile", p>>
         ELSE NoErr

\* GetSessionToken of task i returns the failure of GetMFASerial: no
\* external command, nothing published, the error handed to the flow
FailsOnSerial(i) ==
    /\ tasks'[i].pc = "returned"
    /\ tasks'[i].calls = tasks[i].calls
    /\ tasks'[i].ret = ErrorMsg(MFASerialFailure(profile))
    /\ env' = env
    /\ artifact' = artifact

\* the errors of GetMFASerial
IsSerialFailure(e) ==
    /\ e # NoErr
    /\ e[1] \in {"profile not found in credentials",
                 "MFA serial not configured for profile"}

\* C24: GetMFASerial(profile) returns the serial when it is non-empty, fails
\* with "profile '<name>' not found in credentials" for a name that is not
\* stored and with "MFA serial not configured for profile '<name>'" for a
\* stored profile without serial; in both failure cases GetSessionToken
\* invokes no external command and publishes nothing, and the flow ends in
\* the terminal failure state with that message: Done, the error stored, the
\* success flag false.
C24_MissingSerialFails ==
    [][/\ \A i \in DOMAIN tasks :
             ProcSessionToken(i)
                => IF MFASerialFailure(profile) = NoErr
                   THEN /\ GetMFASerial(credentials, profile).ok
                        /\ GetMFASerial(credentials, profile).serial
                              = credentials[profile].MfaSerial
                        /\ tasks'[i].calls # tasks[i].calls
                   ELSE FailsOnSerial(i)
       /\ \A m \in BagToSet(msgs) :
             ErrorStep(m) /\ IsSerialFailure(m.err)
                => /\ currentStep' = StepDone
                   /\ err' = m.err
                   /\ ~success']_vars

----------------------------------------------------------------------------
(* Properties of the auth drivers *)

\* the call of fn has returned
HasReturned(fn) == call.fn = fn /\ call.returned

\* the returned slice of called driver methods holds the method
Called(method) == \E i \in 1..Len(call.calls) : call.calls[i] = method

\* C25: the Manual driver never yields a code: YieldsMFACode is false,
\* GetMFACode and GetToken always return an error (and the empty string),
\* IsInstalled is always true; AWSService.GetMFACode returns an error without
\* calling the driver's GetMFACode when the driver is nil or does not yield
\* a code.
C25_ManualNeverYields ==
    /\ HasReturned("ManualDriver.YieldsMFACode") => ~call.ok
    /\ HasReturned("ManualDriver.GetMFACode")
          => ~call.ok /\ call.err # <<>> /\ call.text = EmptyStr
    /\ HasReturned("ManualDriver.GetToken")
          => ~call.ok /\ call.err # <<>> /\ call.text = EmptyStr
    /\ HasReturned("ManualDriver.IsInstalled") => call.ok
    /\ HasReturned("AWSService.GetMFACode") /\ call.driver \in {"nil", AuthDriverManual}
          => /\ ~call.ok
             /\ call.err # <<>>
             /\ call.text = EmptyStr
             /\ ~Called("GetMFACode")
             /\ call.driver = "nil" => call.calls = <<>>

\* C25 is exercised: AWSService.GetMFACode was called with the Manual driver
\* and returned its error after asking the driver whether it yields a code
C25_Witness ==
    /\ HasReturned("AWSService.GetMFACode")
    /\ call.driver = AuthDriverManual
    /\ call.calls = <<"YieldsMFACode">>
    /\ call.err = Errorf("auth driver does not yield MFA code", <<>>)

NotSpace(piece) == piece \notin SpaceChars

\* the spellings of a driver's name: what is left of s without its
\* whitespace is one word, a spelling of the name of d
Spells(s, d) ==
    LET words == SelectSeq(s, NotSpace)
    IN  /\ Len(words) = 1
        /\ \/ d = AuthDriverManual /\ words[1] \in {"manual", "Manual", "MANUAL"}
           \/ d = AuthDriver1Password /\ words[1] \in {"1password", "1Password"}

\* the error names the value and lists the valid options
NamesValue(e, s) ==
    /\ e # <<>>
    /\ e[1] = "invalid auth driver '%s', valid options are: manual, 1password"
    /\ e[2] = s

\* C26: ParseAuthDriver accepts exactly the names manual and 1password,
\* ignoring case and surrounding whitespace, and ParseAuthDriver(d.String())
\* is d for both; every other string, "unknown" and the empty string
\* included, fails with an error that names the value and lists the valid
\* options. GetAuthDriverFromEnv returns Manual without error when the
\* override is absent and an error when it is invalid.
C26_ParseAuthDriver ==
    /\ HasReturned("ParseAuthDriver")
          => /\ \A d \in {AuthDriverManual, AuthDriver1Password} :
                   Spells(call.text, d) => call.ok /\ call.driver = d /\ call.err = <<>>
             /\ (\A d \in {AuthDriverManual, AuthDriver1Password} :
                    ~Spells(call.text, d))
                   => ~call.ok /\ NamesValue(call.err, call.text)
    /\ HasReturned("AuthDriverName.String")
          => call.ok /\ call.name = call.driver
    /\ HasReturned("GetAuthDriverFromEnv")
          => /\ call.text = <<>>
                   => call.ok /\ call.driver = AuthDriverManual /\ call.err = <<>>
             /\ \A d \in {AuthDriverManual, AuthDriver1Password} :
                   Spells(call.text, d) => call.ok /\ call.driver = d
             /\ (/\ call.text # <<>>
                 /\ \A d \in {AuthDriverManual, AuthDriver1Password} :
                       ~Spells(call.text, d))
                   => /\ ~call.ok
                      /\ call.err # <<>>
                      /\ NamesValue(call.err[2], call.text)

\* C26 is exercised: ParseAuthDriver accepted " MANUAL<tab>" as Manual
C26_Witness ==
    /\ HasReturned("ParseAuthDriver")
    /\ call.text = <<" ", "MANUAL", "\t">>
    /\ call.ok
    /\ call.driver = AuthDriverManual

----------------------------------------------------------------------------
(* Properties of the start of the program *)

\* the override the program was started with names no driver
InvalidOverride ==
    /\ call.fn = "main"
    /\ call.text # <<>>
    /\ \A d \in {AuthDriverManual, AuthDriver1Password} : ~Spells(call.text, d)

\* C27: an invalid driver override is fatal at startup: when the configured
\* driver name is not a valid driver the process stops before the UIManager
\* is built, so the orchestrator never enters ProfileSelection.
C27_InvalidOverrideFatal ==
    InvalidOverride => phase = "loading"

----------------------------------------------------------------------------
(* Properties of the flow: the driver list *)

\* IsInstalled of the driver variant d when the probe of the vault CLI
\* gives opInstalled
IsInstalled(d, opInstalled) ==
    IF d = AuthDriverManual THEN ManualDriver.IsInstalled ELSE opInstalled

InstalledDriver(d) == IsInstalled(d, TRUE)
InstalledWithoutVault(d) == IsInstalled(d, FALSE)

\* the driver variants that are installed, in the order of the list
InstalledDrivers(opInstalled) ==
    IF opInstalled
    THEN SelectSeq(<<AuthDriverManual, AuthDriver1Password>>, InstalledDriver)
    ELSE SelectSeq(<<AuthDriverManual, AuthDriver1Password>>,
                   InstalledWithoutVault)

\* C28: the driver list offered in DriverSelection contains exactly the
\* driver variants whose IsInstalled is true: whenever a step builds the
\* list, with any outcome of the probe of the vault CLI, its items are the
\* installed variants; Manual is always offered, so the list is never empty,
\* and the vault driver is offered only when its probe succeeded.
C28_DriverListInstalled ==
    /\ [][\A m \in BagToSet(msgs) : \A ch \in Choices :
             (/\ phase = "running"
              /\ m.type = "stepCompleteMsg"
              /\ Commit(handleStepComplete(UI, m, ch), <<m>>, "running")
              /\ currentStep' = StepDriverSelection)
                => /\ ~driverModel'.nil
                   /\ driverModel'.items = InstalledDrivers(ch.opInstalled)
                   /\ (\E i \in 1..Len(driverModel'.items) :
                          driverModel'.items[i] = AuthDriver1Password)
                         => ch.opInstalled]_vars
    /\ [](currentStep = StepDriverSelection /\ phase = "running"
             => /\ ~driverModel.nil
                /\ Len(driverModel.items) >= 1
                /\ driverModel.items[1] = AuthDriverManual
                /\ driverModel.items \in
                      {<<AuthDriverManual>>,
                       <<AuthDriverManual, AuthDriver1Password>>})

\* C28 is exercised: DriverSelection is shown after a failed probe, with
\* Manual as the only driver
C28_Witness ==
    /\ phase = "running"
    /\ currentStep = StepDriverSelection
    /\ ~driverModel.nil
    /\ driverModel.items = <<AuthDriverManual>>

----------------------------------------------------------------------------
(* Properties of the flow: what is published at the end *)

\* the environment and the handoff artifact hold credential c
Published(c) ==
    /\ env.cred = c
    /\ env.AWS_PROFILE = c.profile
    /\ artifact = c

----------------------------------------------------------------------------
(* Properties of the flow: the run without prompts *)

\* the store holds a single valid profile and no assumable role
SingleProfileNoRole ==
    /\ Cardinality(GetValidProfiles(credentials)) = 1
    /\ \A p \in DOMAIN credentials : credentials[p].AssumableRoleID = EmptyStr

\* task i ends in this step, as a pipeline whose session-token exchange
\* succeeded
PipelineEnds(i) ==
    /\ i \in DOMAIN tasks
    /\ tasks[i].kind = "processAuthentication"
    /\ tasks[i].pc \notin {"returned", "panicked"}
    /\ tasks'[i].pc \in {"returned", "panicked"}
    /\ tasks'[i].calls # <<>>
    /\ tasks'[i].calls[1] = Call("get-session-token", TRUE)

\* C30: with a single valid profile, the Manual driver chosen, no assumable
\* role in the store and a valid 6-digit code entered, the flow reaches
\* Processing without ever waiting for input in ProfileSelection or
\* RoleSelection, and reaches Done with success when the session-token
\* exchange succeeds: ProfileSelection is left by a completion that is
\* already pending, RoleSelection is never shown, Enter on the valid code
\* completes MFAInput and the completion starts Processing, the pipeline whose
\* exchange succeeded returns doneMsg(true), and that message gives Done
\* with success.
C30_NoPromptRun ==
    /\ [](SingleProfileNoRole /\ phase = "running"
             => /\ currentStep = StepProfileSelection
                      => BagIn(StepCompleteMsg(StepProfileSelection, NoData), msgs)
                /\ currentStep # StepRoleSelection)
    /\ [][SingleProfileNoRole
             => /\ (/\ KeyStep(KeyEnter)
                    /\ currentStep = StepMFAInput
                    /\ authDriverName = AuthDriverManual
                    /\ ValidateMFACode(mfaInput))
                      => /\ mfaCode' = mfaInput
                         /\ BagIn(StepCompleteMsg(StepMFAInput, NoData), msgs')
                /\ \A m \in BagToSet(msgs) :
                      StepCompleteStep(m) /\ m.step = StepMFAInput
                         => /\ currentStep' = StepProcessing
                            /\ tasks' = Append(tasks, NewTask("processAuthentication"))
                /\ \A i \in 1..MaxTasks :
                      PipelineEnds(i) => tasks'[i].ret = DoneMsg
                /\ DeliverDone => currentStep' = StepDone /\ success']_vars

\* ---------------------------------------------------------------------
\* The role list (NewRoleListModel, RoleListModel.Update, handleCurrentStep)

\* the items NewRoleListModel builds for the slice `roles`
RoleEntries(roles) ==
    [i \in 1..Len(roles) |->
        RoleItem(GetProfileByRoleArn(roleArnToProfile, roles[i]), roles[i])]

\* a role list as NewRoleListModel builds it: the entry without a role id
\* first, then entries that carry a role id and the profile the reverse
\* index gives for it
WellFormedRoleList ==
    /\ ~roleModel.nil
    /\ Len(roleModel.items) >= 2
    /\ roleModel.items[1].role = EmptyStr
    /\ \A i \in 2..Len(roleModel.items) :
          /\ roleModel.items[i].role # EmptyStr
          /\ roleModel.items[i].title =
                GetProfileByRoleArn(roleArnToProfile, roleModel.items[i].role)

\* C31: the role list built on entering RoleSelection starts with the entry
\* of the current profile, whose role id is empty, followed by one entry
\* per assumable role of the profile, labelled with the profile the reverse
\* index gives for the role and carrying the role id; enter on the first
\* entry leaves the selected role empty and completes the step, enter on
\* another entry makes that entry's role id the selected role, and the
\* completion of RoleSelection makes MFAInput the current step without
\* touching the selected role
C31_RoleList ==
    /\ [][\A m \in BagToSet(msgs) : \A ch \in Choices :
             (/\ phase = "running"
              /\ m.type = "stepCompleteMsg"
              /\ Commit(handleStepComplete(UI, m, ch), <<m>>, "running")
              /\ currentStep' = StepRoleSelection)
                => /\ ~roleModel'.nil
                   /\ roleModel'.items =
                         <<RoleItem(profile, EmptyStr)>> \o RoleEntries(ch.roles)
                   /\ roleModel'.cursor = 1
                   /\ ~roleModel'.selected]_vars
    /\ [](phase = "running" /\ currentStep = StepRoleSelection
             => WellFormedRoleList)
    /\ [][(KeyStep(KeyEnter) /\ currentStep = StepRoleSelection)
             => /\ selectedRole' = roleModel.items[roleModel.cursor].role
                /\ (roleModel.cursor = 1 => selectedRole' = EmptyStr)
                /\ (roleModel.cursor > 1 => selectedRole' # EmptyStr)
                /\ BagIn(StepCompleteMsg(StepRoleSelection, NoData), msgs')
                /\ currentStep' = StepRoleSelection]_vars
    /\ [][\A m \in BagToSet(msgs) :
             (StepCompleteStep(m) /\ m.step = StepRoleSelection)
                => /\ currentStep' = StepMFAInput
                   /\ selectedRole' = selectedRole]_vars

\* C31 is exercised: a role other than the first entry was chosen from a
\* list of two entries and MFAInput was reached with it
C31_Witness ==
    /\ phase = "running"
    /\ currentStep = StepMFAInput
    /\ ~roleModel.nil
    /\ roleModel.selected
    /\ roleModel.cursor = 2
    /\ selectedRole = RoleA
    /\ roleModel.items = <<RoleItem(profile, EmptyStr), RoleItem("prd", RoleA)>>

\* ---------------------------------------------------------------------
\* The store during the flow

\* C32: after the initial load no step of the flow, with the queries it
\* makes on the store (valid profiles, assumable roles, profile of a role,
\* credential of a profile, MFA serial, construction of the driver),
\* changes the map of credentials or the reverse index
C32_StoreReadOnly ==
    [][/\ credentials' = credentials
       /\ roleArnToProfile' = roleArnToProfile
       /\ credentialReader' = credentialReader]_vars

\* C32 is exercised: a flow that listed the roles, built the 1Password
\* driver, read the MFA serial and the credential for the registry login
\* has ended with success, and the store is the one it started with
C32_Witness ==
    /\ currentStep = StepDone
    /\ success
    /\ ~roleModel.nil
    /\ selectedRole = RoleA
    /\ authDriverName = AuthDriver1Password
    /\ \E i \in 1..Len(tasks) : tasks[i].kind = "tryAutoMFA"
    /\ \E i \in 1..Len(tasks) :
          /\ tasks[i].kind = "processAuthentication"
          /\ tasks[i].pc = "returned"
    /\ credentials = StoreRole
    /\ \A r \in DOMAIN roleArnToProfile :
          credentials[roleArnToProfile[r]].AssumableRoleID = r

\* ---------------------------------------------------------------------
\* The pointer AWSService.GetCredentials returns

C34_EventuallyTerminal ==
    <>(currentStep \in {StepDone, StepQuit})

\* ---------------------------------------------------------------------
\* The terminal outcome

\* C35: in Done and in Quit the success flag and the stored error are never
\* both set, and the result's registry-login flag is set only when the
\* success flag is
C35_ExclusiveOutcome ==
    currentStep \in {StepDone, StepQuit}
       => /\ ~(success /\ err # NoErr)
          /\ (sessionResult.ECRAuth => success)

\* ---------------------------------------------------------------------
\* The driver of MFAInput

\* C36: the driver MFAInput works with is the one the user chose in
\* DriverSelection, Manual or 1Password and never Unknown; whatever override
\* main handed in, ProfileSelection is followed by DriverSelection with a
\* list that waits for the choice, and in MFAInput the driver is the choice
\* the driver list holds, which has replaced the override
C36_DriverIsUsersChoice ==
    /\ [](phase = "running" /\ currentStep = StepMFAInput
             => /\ authDriverName \in {AuthDriverManual, AuthDriver1Password}
                /\ ~driverModel.nil
                /\ (driverModel.selected
                      => authDriverName = driverModel.choice))
    /\ [][(currentStep = StepProfileSelection
              /\ currentStep' \notin {StepProfileSelection, StepDone, StepQuit})
             => /\ currentStep' = StepDriverSelection
                /\ ~driverModel'.nil
                /\ ~driverModel'.selected]_vars

\* ---------------------------------------------------------------------
\* Publishing

\* C37: the credential in the environment (with its profile name) and the
\* credential in the artifact are the same after every persistCredentials,
\* whether it returned success or an error, so that they agree in every
\* state; and an exchange that set the environment and could not write the
\* artifact returns the error of the write
C37_EnvMatchesArtifact ==
    /\ [](/\ env.cred = artifact
          /\ env.AWS_PROFILE = artifact.profile)
    /\ [][\A i \in 1..MaxTasks :
             (/\ ProcSessionToken(i) \/ ProcAssumeRole(i)
              /\ env' # env
              /\ artifact' # env'.cred)
                => /\ tasks'[i].ret = ErrorMsg(ErrWriteFile)
                   /\ tasks'[i].pc = "returned"]_vars

\* ---------------------------------------------------------------------
\* The two loaders

\* C38: for every text, loadCredentialsFromContent on an empty store leaves
\* the credential map and the reverse index that LoadCredentialsFile
\* leaves for a file with the same lines
C38_LoadersAgree ==
    call.fn = "loadCredentialsFromContent" /\ call.returned
       => /\ call.store = credentials
          /\ call.index = roleArnToProfile

\* ---------------------------------------------------------------------
\* The store a load leaves

\* the last header of the text that carries the name n
LastHeaderAt(i, n) ==
    /\ HeaderAt(i, n)
    /\ \A k \in (i + 1)..Len(text) : ~HeaderAt(k, n)

\* C39: no credential is ever stored under the empty name: a header whose
\* name trims to nothing stores nothing under it, and while no section is
\* open a line that is not a header changes neither the store nor the
\* credential being built; every stored credential carries its key as
\* ProfileName; and after the load a name that several headers carry holds
\* the credential of the lines of its last section alone
C39_StoreWellFormed ==
    /\ [](/\ "" \notin DOMAIN credentials
          /\ \A n \in DOMAIN credentials : credentials[n].ProfileName = n
          /\ \A r \in DOMAIN roleArnToProfile : roleArnToProfile[r] # "")
    /\ [][\A line \in TextLines :
             /\ (Reads(line) /\ line = <<"[", "]">>)
                   => /\ currentProfile' = ""
                      /\ DOMAIN credentials' \subseteq
                            DOMAIN credentials \cup {currentProfile}
             /\ (Reads(line) /\ currentProfile = "" /\ ~IsHeader(line))
                   => KeepsCredential]_vars
    /\ [](loadPc = "returned"
             => \A n \in TextNames : \A i, k \in 1..Len(text) :
                   (k < i /\ HeaderAt(k, n) /\ LastHeaderAt(i, n))
                      => /\ n \in DOMAIN credentials
                         /\ credentials[n] =
                               SectionCredential(n, SectionLines(i)))

\* C39 is exercised: the name default has two sections, the first assigns
\* an access key and the second nothing, and the stored credential has no
\* access key
C39_Witness ==
    /\ loadPc = "returned"
    /\ text = <<LineHeader("default"),
                LineKeyValue("aws_access_key_id", <<"AK">>),
                LineHeader("default")>>
    /\ DOMAIN credentials = {"default"}
    /\ credentials["default"] =
          StaticCredential("default", "", "", EmptyStr, "", EmptyStr, "")

\* ---------------------------------------------------------------------
\* The registry login

\* C40: whatever profile is active, LoginToECR returns to
\* processAuthentication, which then returns doneMsg(true): with an error
\* (registry-login flag false) when the login is not opted in, when the
\* active profile is not in the store or when one of its two commands
\* fails, and with nil after both commands succeeded, the account id being
\* the profile's account_id or else the fifth field of its role id
C40_LoginAlwaysReturns ==
    [][\A i \in 1..MaxTasks :
          ProcRegistryLogin(i)
             => /\ phase' = phase
                /\ tasks'[i].pc = "returned"
                /\ tasks'[i].ret = DoneMsg
                /\ (~attemptECRLogin \/ env.AWS_PROFILE \notin DOMAIN credentials)
                      => /\ ~sessionResult'.ECRAuth
                         /\ tasks'[i].calls = tasks[i].calls
                /\ sessionResult'.ECRAuth
                      <=> \E j \in 1..Len(tasks'[i].calls) :
                             tasks'[i].calls[j] = Call("docker-login", TRUE)
                /\ (\E j \in 1..Len(tasks'[i].calls) :
                       tasks'[i].calls[j].call = "docker-login")
                      => LET c == credentials[env.AWS_PROFILE]
                         IN  \/ c.AccountID # EmptyStr
                             \/ Len(Split(c.AssumableRoleID, ":")) > AccountField]_vars

====
